---- MODULE Spec2Model ----
(***************************************************************************)
(* Model of the interactive therapy session of @profullstack/therapy.      *)
(*                                                                         *)
(* Three copies of the interactive loop exist in the repository and are    *)
(* modelled side by side, selected by impl:                                *)
(*   "lib"   createTherapySession / conversationLoop  (async/await loop)   *)
(*   "dist"  createTherapySession / processUserInput  (callback recursion) *)
(*   "cli"   startTherapySession  / chatWithAI        (callback recursion, *)
(*           plus the piped, non-interactive branch)                       *)
(*                                                                         *)
(* Text is a sequence of one-character strings, so that toLowerCase and    *)
(* trim are computed and not assumed.  The persona texts are sequences of  *)
(* segments in which the delimiters the code splits on ('Begin' and the    *)
(* double quote) are segments of their own.                                *)
(***************************************************************************)
EXTENDS Integers, Sequences, FiniteSets, TLC

VARIABLES
    impl,           \* which copy of the session loop runs
    options,        \* the options object: [mode, provider, model]
    apiKey,         \* process.env.OPENAI_API_KEY is set
    isTTY,          \* process.stdin.isTTY (read by cli.js only)
    chatHistory,    \* the transcript array
    pc,             \* where the session is suspended
    rlClosed,       \* rl.close() has been called
    errorListeners, \* 'error' listeners registered on rl
    pipeInput,      \* cli.js piped branch: the accumulated stdin text
    aiCalls,        \* number of callAI invocations so far
    out,            \* what the session has written and read, in order
    isActive,       \* EventDrivenTherapy: this.isActive
    rl,             \* EventDrivenTherapy: this.rl, "null" or "open"
    asking,         \* EventDrivenTherapy: a question callback is pending on rl
    inFlight,       \* EventDrivenTherapy: callAI promises not yet settled
    ends,           \* EventDrivenTherapy: messageCount of each session:end event
    lastCall,       \* backend adapter: the last callAI call and its result
    calls,          \* prompts.js: the lookups and extractions made, with results
    sessionId,      \* createTherapyEventManager: sessionId, 0 for null
    sessionStartTime, \* createTherapyEventManager: sessionStartTime, 0 for null
    managerMessageCount,  \* createTherapyEventManager: messageCount
    timers,         \* pending setTimeout callbacks
    returned,       \* what the last call of a public function returned
    clock,          \* the time, in events elapsed
    promises,       \* createOneTimeEmitter: the promise of each waitForResponse
    sessionActive,  \* TherapyEventEmitter: this.sessionActive
    thinkingInterval, \* TherapyEventEmitter: this.thinkingInterval, 0 for undefined
    intervals       \* the handles of the setInterval timers not cleared

vars == <<impl, options, apiKey, isTTY, chatHistory, pc, rlClosed,
          errorListeners, pipeInput, aiCalls, out,
          isActive, rl, asking, inFlight, ends, lastCall,
          calls, sessionId, sessionStartTime, managerMessageCount, timers, returned, clock,
          promises, sessionActive, thinkingInterval, intervals>>

\* the state of createOneTimeEmitter and of TherapyEventEmitter
emitterVars == <<promises, sessionActive, thinkingInterval, intervals>>

\* the state of the modules of lib/prompts.js and lib/event-examples.js
libraryVars == <<calls, sessionId, sessionStartTime, managerMessageCount, timers,
                 returned, clock, emitterVars>>

\* the modules of lib/prompts.js and lib/event-examples.js before any use
LibraryIdle ==
    /\ calls = <<>>
    /\ sessionId = 0
    /\ sessionStartTime = 0
    /\ managerMessageCount = 0
    /\ timers = <<>>
    /\ returned = [fn |-> "none", kind |-> "none", val |-> 0]
    /\ clock = 0
    /\ promises = <<>>
    /\ sessionActive = FALSE
    /\ thinkingInterval = 0
    /\ intervals = {}

\* the state of the event-driven session and of the adapter harness
nonSessionVars == <<isActive, rl, asking, inFlight, ends, lastCall>>

-----------------------------------------------------------------------------
(* Bounds of the model *)

\* the number of non-exit input lines one session accepts
MaxTurns == 3

\* the number of characters a piped session receives before end of stream
MaxPipeLen == 3
MaxStarts == 1
MaxCalls == 2
MaxInputErrors == 1
MaxLookups == 3
MaxOps == 5

\* the number of waitForResponse calls on one one-time emitter
MaxWaits == 2

\* the number of calls of the public methods of one class-based emitter
MaxEmitterCalls == 4

\* the number of 'thinking' events of one class-based emitter
MaxTicks == 2

-----------------------------------------------------------------------------
(* Text *)

UpperChars == <<"A","B","C","D","E","F","G","H","I","J","K","L","M",
                "N","O","P","Q","R","S","T","U","V","W","X","Y","Z">>

LowerChars == <<"a","b","c","d","e","f","g","h","i","j","k","l","m",
                "n","o","p","q","r","s","t","u","v","w","x","y","z">>

toLowerChar(c) ==
    IF \E i \in DOMAIN UpperChars : UpperChars[i] = c
    THEN LowerChars[CHOOSE i \in DOMAIN UpperChars : UpperChars[i] = c]
    ELSE c

\* String.prototype.toLowerCase
toLowerCase(s) == [i \in 1..Len(s) |-> toLowerChar(s[i])]

IsWhiteSpace(c) == c \in {" ", "\t", "\n", "\r"}

\* String.prototype.trim
trim(s) ==
    LET keep == {i \in 1..Len(s) : ~IsWhiteSpace(s[i])}
    IN  IF keep = {} THEN <<>>
        ELSE SubSeq(s, CHOOSE i \in keep : \A j \in keep : i <= j,
                       CHOOSE i \in keep : \A j \in keep : i >= j)

-----------------------------------------------------------------------------
(* Persona registry: lib/prompts.js *)

DefaultGreeting == <<"I'm here to support you. What's been on your mind lately?">>

\* THERAPY_PROMPTS; the text before the closing instruction is one segment
THERAPY_PROMPTS ==
    [cbt    |-> <<"You are a compassionate AI mental health support assistant trained in Cognitive Behavioral Therapy (CBT) techniques. [...] ",
                  "Begin", " the session with: ", "\"",
                  "I'm here to support you. What's been on your mind lately?",
                  "\"">>,
     person |-> <<"You are a warm and supportive AI trained in person-centered therapy. [...] ",
                  "Begin", " with: ", "\"",
                  "I'm here with you. What would you like to talk about today?",
                  "\"">>,
     trauma |-> <<"You are a supportive AI assistant trained in trauma-informed care. [...] Start by saying: ",
                  "\"",
                  "I'm here to listen, gently and without judgment. What would feel safe to talk about today?",
                  "\"">>]

str_cbt    == <<"c","b","t">>
str_person == <<"p","e","r","s","o","n">>
str_trauma == <<"t","r","a","u","m","a">>

\* the keys an object literal inherits from Object.prototype that consist of
\* lower-case characters only, and the values found under them, which are
\* not strings
str_constructor == <<"c","o","n","s","t","r","u","c","t","o","r">>
str___proto__   == <<"_","_","p","r","o","t","o","_","_">>
ObjectFunction  == <<"[Function: Object]">>
ObjectPrototype == <<"[Object: null prototype] {}">>

\* getPromptForMode returning the cbt prompt for the key trauma
getPromptForMode_NoTrauma(mode) ==
    LET normalizedMode == toLowerCase(mode)
    IN  CASE normalizedMode = str_cbt         -> THERAPY_PROMPTS.cbt
          [] normalizedMode = str_person      -> THERAPY_PROMPTS.person
          [] normalizedMode = str_constructor -> ObjectFunction
          [] normalizedMode = str___proto__   -> ObjectPrototype
          [] OTHER                            -> THERAPY_PROMPTS.cbt

\* getPromptForMode indexing with mode instead of mode.toLowerCase()
getPromptForMode_CaseSensitive(mode) ==
    CASE mode = str_cbt         -> THERAPY_PROMPTS.cbt
      [] mode = str_person      -> THERAPY_PROMPTS.person
      [] mode = str_trauma      -> THERAPY_PROMPTS.trauma
      [] mode = str_constructor -> ObjectFunction
      [] mode = str___proto__   -> ObjectPrototype
      [] OTHER                  -> THERAPY_PROMPTS.cbt

\* getPromptForMode: THERAPY_PROMPTS[mode.toLowerCase()] || THERAPY_PROMPTS.cbt;
\* the property lookup follows the prototype chain of the object literal
getPromptForMode(mode) ==
    LET normalizedMode == toLowerCase(mode)
    IN  CASE normalizedMode = str_cbt         -> THERAPY_PROMPTS.cbt
          [] normalizedMode = str_person      -> THERAPY_PROMPTS.person
          [] normalizedMode = str_trauma      -> THERAPY_PROMPTS.trauma
          [] normalizedMode = str_constructor -> ObjectFunction
          [] normalizedMode = str___proto__   -> ObjectPrototype
          [] OTHER                            -> THERAPY_PROMPTS.cbt

\* initialPrompt.split('Begin').pop(): the text after the last 'Begin'
afterLastBegin(p) ==
    LET at == {i \in 1..Len(p) : p[i] = "Begin"}
    IN  IF at = {} THEN p
        ELSE SubSeq(p, (CHOOSE i \in at : \A j \in at : i >= j) + 1, Len(p))

\* startMessage taking element [0] of the split at the quotation marks
startMessage_Index0(p) ==
    LET t  == afterLastBegin(p)
        q  == {i \in 1..Len(t) : t[i] = "\""}
        q1 == IF q = {} THEN Len(t) + 1 ELSE CHOOSE i \in q : \A j \in q : i <= j
        piece == SubSeq(t, 1, q1 - 1)
    IN  IF \A i \in 1..Len(piece) : piece[i] = "" THEN DefaultGreeting ELSE piece

\* startMessage: initialPrompt.split('Begin').pop().split('"')[1] || default
startMessage(p) ==
    LET t  == afterLastBegin(p)
        q  == {i \in 1..Len(t) : t[i] = "\""}
        q1 == CHOOSE i \in q : \A j \in q : i <= j
        r  == {i \in q : i > q1}
        q2 == IF r = {} THEN Len(t) + 1 ELSE CHOOSE i \in r : \A j \in r : i <= j
        piece == SubSeq(t, q1 + 1, q2 - 1)
    IN  IF q = {} \/ (\A i \in 1..Len(piece) : piece[i] = "") THEN DefaultGreeting ELSE piece

-----------------------------------------------------------------------------
(* Backend adapter: lib/ai-providers.js *)

OPENAI_API_URL == "https://api.openai.com/v1/chat/completions"
OLLAMA_API_URL == "http://localhost:11434/api/chat"

str_openai == <<"o","p","e","n","a","i">>
str_ollama == <<"o","l","l","a","m","a">>

\* options.model left unset
Undefined == <<"undefined">>

\* what one fetch() does: kind "ok" is a 2xx response carrying a reply,
\* "status" a non-2xx response, "throw" a rejected fetch
NetOk(content)        == [kind |-> "ok", status |-> 200, statusText |-> <<"OK">>, text |-> content]
NetStatus(st, stt, t) == [kind |-> "status", status |-> st, statusText |-> stt, text |-> t]
NetThrow(msg)         == [kind |-> "throw", status |-> 0, statusText |-> <<>>, text |-> msg]

Reply(text, req)  == [ok |-> TRUE,  text |-> text, message |-> <<>>, requests |-> req]
Throw(msg, req)   == [ok |-> FALSE, text |-> <<>>, message |-> msg,  requests |-> req]

\* error.message.includes('fetch failed')
includesFetchFailed(msg) == \E i \in 1..Len(msg) : msg[i] = "fetch failed"

\* callOpenAI without the test of the API key: the request carries no credential
callOpenAI_NoKeyCheck(messages, model, key, net) ==
    LET req == <<[url |-> OPENAI_API_URL, model |-> model, messages |-> messages,
                  auth |-> TRUE]>>
        thrown == IF net.kind = "status"
                  THEN <<"OpenAI API error (", ToString(net.status), "): ">>
                       \o (IF net.text /= <<>> THEN net.text ELSE net.statusText)
                  ELSE net.text
    IN  IF net.kind = "ok"
        THEN Reply(trim(net.text), req)
        ELSE IF includesFetchFailed(thrown)
        THEN Throw(<<"Failed to connect to OpenAI API. Please check your internet connection.">>, req)
        ELSE Throw(thrown, req)

\* callOpenAI(messages, model, verbose)
callOpenAI(messages, model, key, net) ==
    LET req == <<[url |-> OPENAI_API_URL, model |-> model, messages |-> messages,
                  auth |-> TRUE]>>
        thrown == IF net.kind = "status"
                  THEN <<"OpenAI API error (", ToString(net.status), "): ">>
                       \o (IF net.text /= <<>> THEN net.text ELSE net.statusText)
                  ELSE net.text
    IN  IF ~key
        THEN Throw(<<"OpenAI API key not found. Please set OPENAI_API_KEY in your .env file.">>, <<>>)
        ELSE IF net.kind = "ok"
        THEN Reply(trim(net.text), req)
        ELSE IF includesFetchFailed(thrown)
        THEN Throw(<<"Failed to connect to OpenAI API. Please check your internet connection.">>, req)
        ELSE Throw(thrown, req)

\* callOllama rethrowing every error as it caught it
callOllama_Rethrow(messages, model, net) ==
    LET req == <<[url |-> OLLAMA_API_URL, model |-> model, messages |-> messages,
                  auth |-> FALSE]>>
        thrown == IF net.kind = "status"
                  THEN <<"Ollama API error (", ToString(net.status), "): ">>
                       \o (IF net.text /= <<>> THEN net.text ELSE net.statusText)
                  ELSE net.text
    IN  IF net.kind = "ok" THEN Reply(trim(net.text), req) ELSE Throw(thrown, req)

\* callOllama(messages, model, verbose)
callOllama(messages, model, net) ==
    LET req == <<[url |-> OLLAMA_API_URL, model |-> model, messages |-> messages,
                  auth |-> FALSE]>>
        thrown == IF net.kind = "status"
                  THEN <<"Ollama API error (", ToString(net.status), "): ">>
                       \o (IF net.text /= <<>> THEN net.text ELSE net.statusText)
                  ELSE net.text
    IN  IF net.kind = "ok"
        THEN Reply(trim(net.text), req)
        ELSE IF includesFetchFailed(thrown)
        THEN Throw(<<"Failed to connect to Ollama. Make sure Ollama is running locally (http://localhost:11434).">>, req)
        ELSE Throw(thrown, req)

\* callAI sending the default model whatever config.model holds
callAI_AlwaysDefault(messages, config, key, net) ==
    LET given    == IF config.provider = Undefined THEN str_ollama ELSE config.provider
        provider == toLowerCase(given)
    IN  CASE provider = str_openai -> callOpenAI(messages, <<"gpt-4">>, key, net)
          [] provider = str_ollama -> callOllama(messages, <<"llama3">>, net)
          [] OTHER ->
               Throw(<<"Unsupported AI provider: ">> \o given, <<>>)

\* callAI whose default case falls back to the ollama backend
callAI_DefaultOllama(messages, config, key, net) ==
    LET given    == IF config.provider = Undefined THEN str_ollama ELSE config.provider
        provider == toLowerCase(given)
    IN  CASE provider = str_openai ->
               callOpenAI(messages,
                          IF config.model \in {Undefined, <<>>} THEN <<"gpt-4">> ELSE config.model,
                          key, net)
          [] OTHER ->
               callOllama(messages,
                          IF config.model \in {Undefined, <<>>} THEN <<"llama3">> ELSE config.model,
                          net)

\* callAI(messages, config)
callAI(messages, config, key, net) ==
    LET given    == IF config.provider = Undefined THEN str_ollama ELSE config.provider
        provider == toLowerCase(given)
    IN  CASE provider = str_openai ->
               callOpenAI(messages,
                          IF config.model \in {Undefined, <<>>} THEN <<"gpt-4">> ELSE config.model,
                          key, net)
          [] provider = str_ollama ->
               callOllama(messages,
                          IF config.model \in {Undefined, <<>>} THEN <<"llama3">> ELSE config.model,
                          net)
          [] OTHER ->
               Throw(<<"Unsupported AI provider: ">> \o given, <<>>)

-----------------------------------------------------------------------------
(* Inputs of the session model *)

\* the mode option: a supported mode, one in another letter case, an unknown one
Modes == { str_cbt, <<"P","e","r","s","o","n">>, <<"x","y","z">> }

\* the provider option
Providers == { str_ollama, <<"O","p","e","n","A","I">>, <<"g","r","o","k">> }

line_exit      == <<"e","x","i","t">>
line_EXIT      == <<"E","X","I","T">>
line_Bye       == <<"B","y","e">>
line_quit      == <<"q","u","i","t">>
line_Quit_sp   == <<" ","Q","u","i","t"," ">>
line_exit_now  == <<"e","x","i","t"," ","n","o","w">>
line_Hi        == <<" ","H","i","!"," ">>

\* the lines a user types at the prompt
Lines == { line_exit, line_EXIT, line_Bye, line_quit, 
           line_Quit_sp, line_exit_now, line_Hi }

\* the chunks piped stdin delivers
Chunks == { <<" ">>, <<"H","i">>, <<"\n">> }

\* what the backend does with one request of a session
SessionNet ==
    { NetOk(<<" ","O","K","\n">>), NetThrow(<<"fetch failed">>) }

-----------------------------------------------------------------------------
(* Session engine: lib/therapy.js, dist/therapy.js, cli.js *)

Msg(role, content) == [role |-> role, content |-> content]

Ev(ev, text) == [ev |-> ev, text |-> text]

\* isExitCommand without the case folding
isExitCommand_CaseSensitive(userInput) ==
    userInput \in { <<"e","x","i","t">>, <<"q","u","i","t">>, <<"b","y","e">> }

\* isExitCommand matching a leading exit token (startsWith instead of includes)
isExitCommand_StartsWith(userInput) ==
    \E t \in { <<"e","x","i","t">>, <<"q","u","i","t">>, <<"b","y","e">> } :
        /\ Len(userInput) >= Len(t)
        /\ SubSeq(toLowerCase(userInput), 1, Len(t)) = t

\* ['exit', 'quit', 'bye'].includes(userInput.toLowerCase())
isExitCommand(userInput) ==
    toLowerCase(userInput) \in { <<"e","x","i","t">>, <<"q","u","i","t">>, <<"b","y","e">> }

\* the number of user messages of a transcript
UserCount(h) == Cardinality({i \in 1..Len(h) : h[i].role = "user"})

\* the number of events of one kind written so far
Count(log, ev) == Cardinality({i \in 1..Len(log) : log[i].ev = ev})

config == [provider |-> options.provider, model |-> options.model]

\* callAI has not been called
NoCall == [called |-> FALSE]

Init ==
    /\ impl \in {"lib", "dist", "cli"}
    /\ options \in [mode : Modes, provider : Providers, model : {Undefined}]
    /\ apiKey \in BOOLEAN
    /\ isTTY \in (IF impl = "cli" THEN BOOLEAN ELSE {TRUE})
    /\ chatHistory = <<>>
    /\ pc = "init"
    /\ rlClosed = FALSE
    /\ errorListeners = 0
    /\ pipeInput = <<>>
    /\ aiCalls = 0
    /\ out = <<>>
    /\ isActive = FALSE
    /\ rl = "null"
    /\ asking = FALSE
    /\ inFlight = 0
    /\ ends = <<>>
    /\ lastCall = NoCall
    /\ LibraryIdle

\* rl.question(...): the prompt is written; dist/therapy.js registers one more
\* 'error' listener on every call of processUserInput
question(log) == Append(log, Ev("prompt", <<>>))

listenersAfterQuestion == IF impl = "dist" THEN errorListeners + 1 ELSE errorListeners

\* createTherapySession (lib, dist) and startTherapySession (cli) up to the
\* first suspension
Start ==
    /\ pc = "init"
    /\ LET systemPrompt == getPromptForMode(options.mode)
           greeted == IF impl = "lib" THEN out
                      ELSE Append(out, Ev("greeting", startMessage(systemPrompt)))
       IN  /\ chatHistory' = <<Msg("system", systemPrompt)>>
           /\ IF impl = "cli" /\ ~isTTY
              THEN /\ out' = greeted
                   /\ pc' = "PipeReading"
                   /\ errorListeners' = errorListeners
              ELSE /\ out' = question(greeted)
                   /\ pc' = "AwaitingInput"
                   /\ errorListeners' = listenersAfterQuestion
    /\ UNCHANGED <<impl, options, apiKey, isTTY, rlClosed, pipeInput, aiCalls>>
    /\ UNCHANGED nonSessionVars
    /\ UNCHANGED libraryVars

\* ExitBranch with the push to the history placed above the exit check
ExitBranch_Push(userInput) ==
    /\ chatHistory' = Append(chatHistory, Msg("user", userInput))
    /\ out' = out \o <<Ev("line", userInput), Ev("farewell", <<>>)>>
    /\ rlClosed' = TRUE
    /\ pc' = "Ended"
    /\ UNCHANGED aiCalls

\* the exit branch of the question callback
ExitBranch(userInput) ==
    /\ out' = out \o <<Ev("line", userInput), Ev("farewell", <<>>)>>
    /\ rlClosed' = TRUE
    /\ pc' = "Ended"
    /\ UNCHANGED <<chatHistory, aiCalls>>

\* TurnBranch storing the trimmed line
TurnBranch_Trim(userInput) ==
    /\ chatHistory' = Append(chatHistory, Msg("user", trim(userInput)))
    /\ out' = out \o <<Ev("line", userInput), Ev("thinking", <<>>)>>
    /\ aiCalls' = aiCalls + 1
    /\ pc' = "WaitingOnBackend"
    /\ UNCHANGED rlClosed

\* the rest of the question callback up to the await of callAI
TurnBranch(userInput) ==
    /\ chatHistory' = Append(chatHistory, Msg("user", userInput))
    /\ out' = out \o <<Ev("line", userInput), Ev("thinking", <<>>)>>
    /\ aiCalls' = aiCalls + 1
    /\ pc' = "WaitingOnBackend"
    /\ UNCHANGED rlClosed

\* the question callback: a line arrives at the prompt.  A line typed while a
\* backend call is outstanding finds no pending question and changes nothing.
ReceiveLine(userInput) ==
    /\ pc = "AwaitingInput"
    /\ ~rlClosed
    /\ IF isExitCommand(userInput)
       THEN ExitBranch(userInput)
       ELSE /\ UserCount(chatHistory) < MaxTurns
            /\ TurnBranch(userInput)
    /\ UNCHANGED <<impl, options, apiKey, isTTY, errorListeners, pipeInput>>
    /\ UNCHANGED nonSessionVars
    /\ UNCHANGED libraryVars

\* BackendResolve with the next prompt issued before the reply is handled
BackendResolve_PromptFirst(net) ==
    /\ pc = "WaitingOnBackend"
    /\ LET r == callAI(chatHistory, config, apiKey, net)
       IN  /\ r.ok
           /\ chatHistory' = Append(chatHistory, Msg("assistant", r.text))
           /\ out' = Append(question(out), Ev("reply", r.text))
    /\ errorListeners' = listenersAfterQuestion
    /\ pc' = "AwaitingInput"
    /\ UNCHANGED <<impl, options, apiKey, isTTY, rlClosed, pipeInput, aiCalls>>
    /\ UNCHANGED nonSessionVars
    /\ UNCHANGED libraryVars

\* callAI resolved: the reply is printed and appended, the next prompt issued
BackendResolve(net) ==
    /\ pc = "WaitingOnBackend"
    /\ LET r == callAI(chatHistory, config, apiKey, net)
       IN  /\ r.ok
           /\ chatHistory' = Append(chatHistory, Msg("assistant", r.text))
           /\ out' = question(Append(out, Ev("reply", r.text)))
    /\ errorListeners' = listenersAfterQuestion
    /\ pc' = "AwaitingInput"
    /\ UNCHANGED <<impl, options, apiKey, isTTY, rlClosed, pipeInput, aiCalls>>
    /\ UNCHANGED nonSessionVars
    /\ UNCHANGED libraryVars

\* what the catch block writes: dist/therapy.js adds a notice
reportError(log, msg) ==
    IF impl = "dist"
    THEN log \o <<Ev("error", msg), Ev("notice", <<>>)>>
    ELSE Append(log, Ev("error", msg))

\* BackendReject with the unanswered entry dropped by shift() from the front
BackendReject_Shift(net) ==
    /\ pc = "WaitingOnBackend"
    /\ LET r == callAI(chatHistory, config, apiKey, net)
       IN  /\ ~r.ok
           /\ out' = question(reportError(out, r.message))
    /\ chatHistory' = Tail(chatHistory)
    /\ errorListeners' = listenersAfterQuestion
    /\ pc' = "AwaitingInput"
    /\ UNCHANGED <<impl, options, apiKey, isTTY, rlClosed, pipeInput, aiCalls>>
    /\ UNCHANGED nonSessionVars
    /\ UNCHANGED libraryVars

\* BackendReject with the unanswered user message removed by pop()
BackendReject_Pop(net) ==
    /\ pc = "WaitingOnBackend"
    /\ LET r == callAI(chatHistory, config, apiKey, net)
       IN  /\ ~r.ok
           /\ out' = question(reportError(out, r.message))
    /\ chatHistory' = SubSeq(chatHistory, 1, Len(chatHistory) - 1)
    /\ errorListeners' = listenersAfterQuestion
    /\ pc' = "AwaitingInput"
    /\ UNCHANGED <<impl, options, apiKey, isTTY, rlClosed, pipeInput, aiCalls>>
    /\ UNCHANGED nonSessionVars
    /\ UNCHANGED libraryVars

\* BackendReject with an apology appended as the assistant's message
BackendReject_Apology(net) ==
    /\ pc = "WaitingOnBackend"
    /\ LET r == callAI(chatHistory, config, apiKey, net)
       IN  /\ ~r.ok
           /\ out' = question(reportError(out, r.message))
    /\ chatHistory' = Append(chatHistory, Msg("assistant", <<"S","o","r","r","y">>))
    /\ errorListeners' = listenersAfterQuestion
    /\ pc' = "AwaitingInput"
    /\ UNCHANGED <<impl, options, apiKey, isTTY, rlClosed, pipeInput, aiCalls>>
    /\ UNCHANGED nonSessionVars
    /\ UNCHANGED libraryVars

\* BackendReject handled like the outer catch of conversationLoop: rl.close()
BackendReject_Close(net) ==
    /\ pc = "WaitingOnBackend"
    /\ LET r == callAI(chatHistory, config, apiKey, net)
       IN  /\ ~r.ok
           /\ out' = reportError(out, r.message)
    /\ rlClosed' = TRUE
    /\ pc' = "Ended"
    /\ UNCHANGED <<impl, options, apiKey, isTTY, chatHistory, errorListeners, pipeInput, aiCalls>>
    /\ UNCHANGED nonSessionVars
    /\ UNCHANGED libraryVars

\* BackendReject calling callAI again instead of reporting the failure
BackendReject_Retry(net) ==
    /\ pc = "WaitingOnBackend"
    /\ ~callAI(chatHistory, config, apiKey, net).ok
    /\ aiCalls' = aiCalls + 1
    /\ UNCHANGED <<impl, options, apiKey, isTTY, chatHistory, pc, rlClosed,
                   errorListeners, pipeInput, out>>
    /\ UNCHANGED nonSessionVars
    /\ UNCHANGED libraryVars

\* callAI rejected: the error is printed, the next prompt issued
BackendReject(net) ==
    /\ pc = "WaitingOnBackend"
    /\ LET r == callAI(chatHistory, config, apiKey, net)
       IN  /\ ~r.ok
           /\ out' = question(reportError(out, r.message))
    /\ errorListeners' = listenersAfterQuestion
    /\ pc' = "AwaitingInput"
    /\ UNCHANGED <<impl, options, apiKey, isTTY, chatHistory, rlClosed, pipeInput, aiCalls>>
    /\ UNCHANGED nonSessionVars
    /\ UNCHANGED libraryVars

\* PipeData with the chunk assigned (=) instead of accumulated (+=)
PipeData_Replace(chunk) ==
    /\ pc = "PipeReading"
    /\ Len(pipeInput) + Len(chunk) <= MaxPipeLen
    /\ pipeInput' = chunk
    /\ out' = Append(out, Ev("data", chunk))
    /\ UNCHANGED <<impl, options, apiKey, isTTY, chatHistory, pc, rlClosed,
                   errorListeners, aiCalls>>
    /\ UNCHANGED nonSessionVars
    /\ UNCHANGED libraryVars

\* cli.js piped branch: process.stdin 'data'
PipeData(chunk) ==
    /\ pc = "PipeReading"
    /\ Len(pipeInput) + Len(chunk) <= MaxPipeLen
    /\ pipeInput' = pipeInput \o chunk
    /\ out' = Append(out, Ev("data", chunk))
    /\ UNCHANGED <<impl, options, apiKey, isTTY, chatHistory, pc, rlClosed,
                   errorListeners, aiCalls>>
    /\ UNCHANGED nonSessionVars
    /\ UNCHANGED libraryVars

\* PipeEnd testing pipeInput itself instead of pipeInput.trim()
PipeEnd_NoTrim ==
    /\ pc = "PipeReading"
    /\ IF pipeInput /= <<>>
       THEN /\ chatHistory' = Append(chatHistory, Msg("user", trim(pipeInput)))
            /\ out' = out \o <<Ev("echo", trim(pipeInput)), Ev("thinking", <<>>)>>
            /\ aiCalls' = aiCalls + 1
            /\ pc' = "PipeWaiting"
       ELSE /\ out' = Append(out, Ev("noinput", <<>>))
            /\ pc' = "Ended"
            /\ UNCHANGED <<chatHistory, aiCalls>>
    /\ UNCHANGED <<impl, options, apiKey, isTTY, rlClosed, errorListeners, pipeInput>>
    /\ UNCHANGED nonSessionVars
    /\ UNCHANGED libraryVars

\* cli.js piped branch: process.stdin 'end' up to the await of callAI
PipeEnd ==
    /\ pc = "PipeReading"
    /\ IF trim(pipeInput) /= <<>>
       THEN /\ chatHistory' = Append(chatHistory, Msg("user", trim(pipeInput)))
            /\ out' = out \o <<Ev("echo", trim(pipeInput)), Ev("thinking", <<>>)>>
            /\ aiCalls' = aiCalls + 1
            /\ pc' = "PipeWaiting"
       ELSE /\ out' = Append(out, Ev("noinput", <<>>))
            /\ pc' = "Ended"
            /\ UNCHANGED <<chatHistory, aiCalls>>
    /\ UNCHANGED <<impl, options, apiKey, isTTY, rlClosed, errorListeners, pipeInput>>
    /\ UNCHANGED nonSessionVars
    /\ UNCHANGED libraryVars

\* cli.js piped branch: callAI settled; the reply is printed, not appended
PipeBackendDone(net) ==
    /\ pc = "PipeWaiting"
    /\ LET r == callAI(chatHistory, config, apiKey, net)
       IN  out' = IF r.ok THEN Append(out, Ev("reply", r.text))
                  ELSE Append(out, Ev("error", r.message))
    /\ pc' = "Ended"
    /\ UNCHANGED <<impl, options, apiKey, isTTY, chatHistory, rlClosed,
                   errorListeners, pipeInput, aiCalls>>
    /\ UNCHANGED nonSessionVars
    /\ UNCHANGED libraryVars

Next ==
    \/ Start
    \/ \E userInput \in Lines : ReceiveLine(userInput)
    \/ \E net \in SessionNet : BackendResolve(net)
    \/ \E net \in SessionNet : BackendReject(net)
    \/ \E chunk \in Chunks : PipeData(chunk)
    \/ PipeEnd
    \/ \E net \in SessionNet : PipeBackendDone(net)

Spec == Init /\ [][Next]_vars

\* ---------------------------------------------------------------------
\* callAI on its own: the caller's arguments and the network's answer
\* ---------------------------------------------------------------------

\* config.provider values: absent, the two backends in several cases, others
AIProviders == Providers \cup { Undefined, str_openai, <<"O","L","L","A","M","A">>,
                                <<"o","p","e","n","a","i"," ">> }

AIModels == { Undefined, <<>>, <<"m">> }

AIMessages == { <<Msg("system", str_cbt)>>,
                <<Msg("system", str_cbt), Msg("user", <<"H","i">>)>> }

\* what the network does with a request: a reply, an HTTP error status with
\* a body, without a body, and with a body quoting an upstream failure, a
\* refused connection, another thrown error
AINet == { NetOk(<<" ","O","K","\n">>),
           NetStatus(500, <<"Internal Server Error">>, <<"b","a","d">>),
           NetStatus(404, <<"Not Found">>, <<>>),
           NetStatus(502, <<"Bad Gateway">>, <<"upstream: ", "fetch failed">>),
           NetThrow(<<"fetch failed">>),
           NetThrow(<<"boom">>) }

InitAI ==
    /\ impl = "lib"
    /\ options \in [mode : {str_cbt}, provider : AIProviders, model : AIModels]
    /\ apiKey \in BOOLEAN
    /\ isTTY = TRUE
    /\ chatHistory \in AIMessages
    /\ pc = "callAI"
    /\ rlClosed = FALSE
    /\ errorListeners = 0
    /\ pipeInput = <<>>
    /\ aiCalls = 0
    /\ out = <<>>
    /\ isActive = FALSE
    /\ rl = "null"
    /\ asking = FALSE
    /\ inFlight = 0
    /\ ends = <<>>
    /\ lastCall = NoCall
    /\ LibraryIdle

\* InvokeAI with the reply pushed onto the messages array it was given
InvokeAI_Push(net) ==
    /\ pc = "callAI"
    /\ LET r == callAI(chatHistory, config, apiKey, net)
       IN  /\ lastCall' = [called |-> TRUE, net |-> net, messages |-> chatHistory,
                           result |-> r]
           /\ chatHistory' = IF r.ok THEN Append(chatHistory, Msg("assistant", r.text))
                             ELSE chatHistory
    /\ UNCHANGED <<impl, options, apiKey, isTTY, pc, rlClosed,
                   errorListeners, pipeInput, aiCalls, out, isActive, rl,
                   asking, inFlight, ends>>
    /\ UNCHANGED libraryVars

\* await callAI(chatHistory, config) with the network answering net; the
\* array is only read (JSON.stringify)
InvokeAI(net) ==
    /\ pc = "callAI"
    /\ lastCall' = [called |-> TRUE, net |-> net, messages |-> chatHistory,
                    result |-> callAI(chatHistory, config, apiKey, net)]
    /\ UNCHANGED <<impl, options, apiKey, isTTY, chatHistory, pc, rlClosed,
                   errorListeners, pipeInput, aiCalls, out, isActive, rl,
                   asking, inFlight, ends>>
    /\ UNCHANGED libraryVars

NextAI == \E net \in AINet : InvokeAI(net)

SpecAI == InitAI /\ [][NextAI]_vars

\* ---------------------------------------------------------------------
\* lib/prompts.js on its own: getPromptForMode and the opening-line
\* extraction applied to bounded sets of arguments
\* ---------------------------------------------------------------------

\* mode arguments: the three keys in two spellings, the empty string, an
\* unknown word, and the two inherited keys
PersonaModes ==
    { str_cbt, <<"C","B","T">>, str_person, <<"P","e","r","s","o","n">>,
      str_trauma, <<"T","R","A","U","M","A">>, <<>>, <<"x","y","z">>,
      str_constructor, str___proto__ }

\* texts without a quotation after the last 'Begin': plain, empty, 'Begin'
\* without quotation marks, quotation marks only before 'Begin'
MarkerlessTexts ==
    { <<"Talk to the user kindly.">>,
      <<>>,
      <<"Please ", "Begin", " gently.">>,
      <<"\"", "Hello", "\"", " then ", "Begin", " the talk.">> }

PersonaTexts ==
    { THERAPY_PROMPTS.cbt, THERAPY_PROMPTS.person, THERAPY_PROMPTS.trauma }
        \cup MarkerlessTexts

Called(fn, arg, result) == [fn |-> fn, arg |-> arg, result |-> result]

InitPersona ==
    /\ impl = "prompts"
    /\ options = [mode |-> str_cbt, provider |-> str_ollama, model |-> Undefined]
    /\ apiKey = FALSE
    /\ isTTY = TRUE
    /\ chatHistory = <<>>
    /\ pc = "Loaded"
    /\ rlClosed = FALSE
    /\ errorListeners = 0
    /\ pipeInput = <<>>
    /\ aiCalls = 0
    /\ out = <<>>
    /\ isActive = FALSE
    /\ rl = "null"
    /\ asking = FALSE
    /\ inFlight = 0
    /\ ends = <<>>
    /\ lastCall = NoCall
    /\ LibraryIdle

\* getPromptForMode(mode)
Lookup(mode) ==
    /\ pc = "Loaded"
    /\ Len(calls) < MaxLookups
    /\ calls' = Append(calls, Called("getPromptForMode", mode, getPromptForMode(mode)))
    /\ UNCHANGED <<impl, options, apiKey, isTTY, chatHistory, pc, rlClosed,
                   errorListeners, pipeInput, aiCalls, out>>
    /\ UNCHANGED nonSessionVars
    /\ UNCHANGED <<sessionId, sessionStartTime, managerMessageCount, timers,
                   returned, clock>>
    /\ UNCHANGED emitterVars

\* systemPrompt.split('Begin').pop().split('"')[1] || default
Extract(text) ==
    /\ pc = "Loaded"
    /\ Len(calls) < MaxLookups
    /\ calls' = Append(calls, Called("startMessage", text, startMessage(text)))
    /\ UNCHANGED <<impl, options, apiKey, isTTY, chatHistory, pc, rlClosed,
                   errorListeners, pipeInput, aiCalls, out>>
    /\ UNCHANGED nonSessionVars
    /\ UNCHANGED <<sessionId, sessionStartTime, managerMessageCount, timers,
                   returned, clock>>
    /\ UNCHANGED emitterVars

NextPersona ==
    \/ \E mode \in PersonaModes : Lookup(mode)
    \/ \E text \in PersonaTexts : Extract(text)

SpecPersona == InitPersona /\ [][NextPersona]_vars

\* ---------------------------------------------------------------------
\* createTherapyEventManager (lib/event-examples.js)
\* ---------------------------------------------------------------------

ManagerMessages == { <<"This will fail">>, <<"Hello, I need some help">> }

\* an event as its listeners receive it
MEv(ev, sid, mid, count, text) ==
    [ev |-> ev, sessionId |-> sid, messageId |-> mid, messageCount |-> count,
     text |-> text]

\* what a public function returned: a boolean, a session id, or nothing
\* because it threw
Ret(fn, kind, val) == [fn |-> fn, kind |-> kind, val |-> val]

InitMgr ==
    /\ impl = "manager"
    /\ options = [mode |-> str_cbt, provider |-> str_ollama, model |-> Undefined]
    /\ apiKey = FALSE
    /\ isTTY = TRUE
    /\ chatHistory = <<>>
    /\ pc = "Created"
    /\ rlClosed = FALSE
    /\ errorListeners = 0
    /\ pipeInput = <<>>
    /\ aiCalls = 0
    /\ out = <<>>
    /\ isActive = FALSE
    /\ rl = "null"
    /\ asking = FALSE
    /\ inFlight = 0
    /\ ends = <<>>
    /\ lastCall = NoCall
    /\ LibraryIdle

\* events.on('error', listener) by the user of the manager
RegisterErrorListener ==
    /\ pc = "Created"
    /\ errorListeners = 0
    /\ errorListeners' = 1
    /\ UNCHANGED <<impl, options, apiKey, isTTY, chatHistory, pc, rlClosed,
                   pipeInput, aiCalls, out>>
    /\ UNCHANGED nonSessionVars
    /\ UNCHANGED libraryVars

\* startSession without the test of a session in progress
startSession_Restart ==
    /\ pc = "Created"
    /\ clock < MaxOps
    /\ clock' = clock + 1
    /\ sessionId' = clock'
    /\ sessionStartTime' = clock'
    /\ managerMessageCount' = 0
    /\ out' = Append(out, MEv("session:start", clock', 0, 0, <<>>))
    /\ returned' = Ret("startSession", "id", clock')
    /\ UNCHANGED <<impl, options, apiKey, isTTY, chatHistory, pc, rlClosed,
                   errorListeners, pipeInput, aiCalls, isActive, rl, asking,
                   inFlight, ends, lastCall, calls, timers>>
    /\ UNCHANGED emitterVars

\* startSession(); the id is made of the time of the call
startSession ==
    /\ pc = "Created"
    /\ clock < MaxOps
    /\ clock' = clock + 1
    /\ IF sessionId /= 0
       THEN /\ out' = Append(out, MEv("warning", sessionId, 0, managerMessageCount,
                                      <<"Session already in progress">>))
            /\ returned' = Ret("startSession", "id", sessionId)
            /\ UNCHANGED <<sessionId, sessionStartTime, managerMessageCount>>
       ELSE /\ sessionId' = clock'
            /\ sessionStartTime' = clock'
            /\ managerMessageCount' = 0
            /\ out' = Append(out, MEv("session:start", clock', 0, 0, <<>>))
            /\ returned' = Ret("startSession", "id", clock')
    /\ UNCHANGED <<impl, options, apiKey, isTTY, chatHistory, pc, rlClosed,
                   errorListeners, pipeInput, aiCalls, isActive, rl, asking,
                   inFlight, ends, lastCall, calls, timers>>
    /\ UNCHANGED emitterVars

\* processMessage(message); emit('error') with no 'error' listener throws
\* the error to the caller
processMessage(message) ==
    /\ pc = "Created"
    /\ clock < MaxOps
    /\ clock' = clock + 1
    /\ IF sessionId = 0
       THEN /\ IF errorListeners = 0
               THEN /\ returned' = Ret("processMessage", "throw", 0)
                    /\ out' = out
               ELSE /\ returned' = Ret("processMessage", "bool", 0)
                    /\ out' = Append(out, MEv("error", 0, 0, managerMessageCount,
                                              <<"No active session">>))
            /\ UNCHANGED <<managerMessageCount, timers>>
       ELSE /\ managerMessageCount' = managerMessageCount + 1
            /\ out' = Append(out, MEv("message:received", sessionId,
                                      managerMessageCount', managerMessageCount',
                                      message))
            /\ timers' = Append(timers, [sessionId |-> sessionId,
                                         messageId |-> managerMessageCount'])
            /\ returned' = Ret("processMessage", "bool", 1)
    /\ UNCHANGED <<impl, options, apiKey, isTTY, chatHistory, pc, rlClosed,
                   errorListeners, pipeInput, aiCalls, isActive, rl, asking,
                   inFlight, ends, lastCall, calls, sessionId, sessionStartTime>>
    /\ UNCHANGED emitterVars

\* the 500 ms timer of the oldest unprocessed message fires: the callback
\* reads sessionId and messageCount as they are now
TimerFires ==
    /\ pc = "Created"
    /\ timers /= <<>>
    /\ timers' = Tail(timers)
    /\ out' = Append(out, MEv("message:processed", sessionId, managerMessageCount,
                              managerMessageCount, <<>>))
    /\ UNCHANGED <<impl, options, apiKey, isTTY, chatHistory, pc, rlClosed,
                   errorListeners, pipeInput, aiCalls, isActive, rl, asking,
                   inFlight, ends, lastCall, calls, sessionId, sessionStartTime,
                   managerMessageCount, returned, clock>>
    /\ UNCHANGED emitterVars

\* endSession without the reset of sessionId
endSession_KeepId ==
    /\ pc = "Created"
    /\ clock < MaxOps
    /\ clock' = clock + 1
    /\ IF sessionId = 0
       THEN /\ out' = Append(out, MEv("warning", 0, 0, managerMessageCount,
                                      <<"No active session to end">>))
            /\ returned' = Ret("endSession", "bool", 0)
            /\ UNCHANGED <<sessionId, sessionStartTime, managerMessageCount>>
       ELSE /\ out' = Append(out, MEv("session:end", sessionId, 0,
                                      managerMessageCount, <<>>))
            /\ managerMessageCount' = 0
            /\ sessionStartTime' = 0
            /\ returned' = Ret("endSession", "bool", 1)
            /\ UNCHANGED sessionId
    /\ UNCHANGED <<impl, options, apiKey, isTTY, chatHistory, pc, rlClosed,
                   errorListeners, pipeInput, aiCalls, isActive, rl, asking,
                   inFlight, ends, lastCall, calls, timers>>
    /\ UNCHANGED emitterVars

\* endSession()
endSession ==
    /\ pc = "Created"
    /\ clock < MaxOps
    /\ clock' = clock + 1
    /\ IF sessionId = 0
       THEN /\ out' = Append(out, MEv("warning", 0, 0, managerMessageCount,
                                      <<"No active session to end">>))
            /\ returned' = Ret("endSession", "bool", 0)
            /\ UNCHANGED <<sessionId, sessionStartTime, managerMessageCount>>
       ELSE /\ out' = Append(out, MEv("session:end", sessionId, 0,
                                      managerMessageCount, <<>>))
            /\ sessionId' = 0
            /\ managerMessageCount' = 0
            /\ sessionStartTime' = 0
            /\ returned' = Ret("endSession", "bool", 1)
    /\ UNCHANGED <<impl, options, apiKey, isTTY, chatHistory, pc, rlClosed,
                   errorListeners, pipeInput, aiCalls, isActive, rl, asking,
                   inFlight, ends, lastCall, calls, timers>>
    /\ UNCHANGED emitterVars

NextMgr ==
    \/ RegisterErrorListener
    \/ startSession
    \/ \E message \in ManagerMessages : processMessage(message)
    \/ TimerFires
    \/ endSession

SpecMgr == InitMgr /\ [][NextMgr]_vars

\* ---------------------------------------------------------------------
\* createTherapySession under an external interrupt: lib/therapy.js,
\* dist/therapy.js and cli.js install no SIGINT handler, so the signal
\* terminates the process without running any code of the session
\* ---------------------------------------------------------------------

Interrupt ==
    /\ pc \in {"AwaitingInput", "WaitingOnBackend", "PipeReading", "PipeWaiting"}
    /\ pc' = "Killed"
    /\ UNCHANGED <<impl, options, apiKey, isTTY, chatHistory, rlClosed,
                   errorListeners, pipeInput, aiCalls, out>>
    /\ UNCHANGED nonSessionVars
    /\ UNCHANGED libraryVars

NextSig == Next \/ Interrupt

SpecSig == Init /\ [][NextSig]_vars

\* ---------------------------------------------------------------------
\* EventDrivenTherapy (examples/therapy-events.js)
\* ---------------------------------------------------------------------

EDTModes == { str_cbt, <<"P","e","r","s","o","n">> }

EDTLines == { line_quit, line_Hi }

\* the error a failing terminal stream raises on the readline interface
InputFailure == <<"read EIO">>

InitEDT ==
    /\ impl = "edt"
    /\ options \in [mode : EDTModes, provider : {str_ollama}, model : {Undefined}]
    /\ apiKey = FALSE
    /\ isTTY = TRUE
    /\ chatHistory = <<>>
    /\ pc = "Running"
    /\ rlClosed = FALSE
    /\ errorListeners = 0
    /\ pipeInput = <<>>
    /\ aiCalls = 0
    /\ out = <<>>
    /\ isActive = FALSE
    /\ rl = "null"
    /\ asking = FALSE
    /\ inFlight = 0
    /\ ends = <<>>
    /\ lastCall = NoCall
    /\ LibraryIdle

\* handleUserInput() followed by the listeners it triggers, with this.isActive
\* being active and this.rl being rlv: the new output and whether a question
\* is pending
handleUserInput(active, rlv, log) ==
    IF ~active \/ rlv = "null"
    THEN [out |-> Append(log, Ev("error", <<"No active session">>)), asking |-> asking]
    ELSE [out |-> question(log), asking |-> TRUE]

\* _onError(error)
onError(active, log, msg) ==
    IF active
    THEN handleUserInput(active, rl, log \o <<Ev("error", msg), Ev("notice", <<>>)>>)
    ELSE [out |-> Append(log, Ev("error", msg)), asking |-> asking]

\* messageCount with the system prompt counted
messageCount_WithSystem == Len(chatHistory)

\* the messageCount of the 'session:end' event
messageCount == Len(chatHistory) - 1

\* what a call of start() or stop() returned, and the message of the
\* 'warning' event it emitted, <<>> if none; the class registers no listener
\* for 'warning'
Outcome(fn, b, warning) ==
    [fn |-> fn, kind |-> "bool", val |-> IF b THEN 1 ELSE 0, warning |-> warning]

\* stop() on an inactive session treated as a stop of an active one
stop_Always(log) ==
    [isActive |-> FALSE, rl |-> "null", asking |-> FALSE,
     ends |-> Append(ends, messageCount),
     out |-> Append(log, Ev("farewell", <<>>)),
     returned |-> Outcome("stop", TRUE, <<>>)]

\* stop() followed by _onSessionEnd
stop(log) ==
    IF ~isActive
    THEN [isActive |-> FALSE, rl |-> rl, asking |-> asking, ends |-> ends,
          out |-> log,
          returned |-> Outcome("stop", FALSE, <<"No active session to end">>)]
    ELSE [isActive |-> FALSE, rl |-> "null", asking |-> FALSE,
          ends |-> Append(ends, messageCount),
          out |-> Append(log, Ev("farewell", <<>>)),
          returned |-> Outcome("stop", TRUE, <<>>)]

\* the part of libraryVars the event-driven session leaves alone
edtLibraryVars == <<calls, sessionId, sessionStartTime, managerMessageCount, timers,
                    clock, emitterVars>>

\* start() followed by _onSessionStart
EDTStart ==
    /\ pc = "Running"
    /\ IF isActive
       THEN /\ returned' = Outcome("start", FALSE, <<"Session already active">>)
            /\ UNCHANGED <<chatHistory, isActive, rl, asking, out>>
       ELSE /\ Count(out, "greeting") < MaxStarts
            /\ returned' = Outcome("start", TRUE, <<>>)
            /\ LET systemPrompt == getPromptForMode(options.mode)
                   h == handleUserInput(TRUE, "open",
                            Append(out, Ev("greeting", startMessage(systemPrompt))))
               IN  /\ chatHistory' = <<Msg("system", systemPrompt)>>
                   /\ rl' = "open"
                   /\ isActive' = TRUE
                   /\ out' = h.out
                   /\ asking' = h.asking
    /\ UNCHANGED <<impl, options, apiKey, isTTY, pc, rlClosed, errorListeners,
                   pipeInput, aiCalls, inFlight, ends, lastCall>>
    /\ UNCHANGED edtLibraryVars

\* the question callback, then _onUserInput and processAIResponse up to the
\* await of callAI
EDTLine(input) ==
    /\ pc = "Running"
    /\ asking
    /\ IF isExitCommand(input)
       THEN LET s == stop(Append(out, Ev("line", input)))
            IN  /\ isActive' = s.isActive
                /\ rl' = s.rl
                /\ asking' = s.asking
                /\ ends' = s.ends
                /\ out' = s.out
                /\ UNCHANGED <<chatHistory, aiCalls, inFlight>>
       ELSE /\ aiCalls < MaxCalls
            /\ chatHistory' = Append(chatHistory, Msg("user", input))
            /\ out' = out \o <<Ev("line", input), Ev("thinking", <<>>)>>
            /\ aiCalls' = aiCalls + 1
            /\ inFlight' = inFlight + 1
            /\ asking' = FALSE
            /\ UNCHANGED <<isActive, rl, ends>>
    /\ UNCHANGED <<impl, options, apiKey, isTTY, pc, rlClosed, errorListeners,
                   pipeInput, lastCall>>
    /\ UNCHANGED libraryVars

\* processAIResponse after callAI resolved, then _onAIResponse
EDTResolve(net) ==
    /\ pc = "Running"
    /\ inFlight > 0
    /\ LET r == callAI(chatHistory, config, apiKey, net)
           h == handleUserInput(isActive, rl, Append(out, Ev("reply", r.text)))
       IN  /\ r.ok
           /\ chatHistory' = Append(chatHistory, Msg("assistant", r.text))
           /\ out' = h.out
           /\ asking' = h.asking
    /\ inFlight' = inFlight - 1
    /\ UNCHANGED <<impl, options, apiKey, isTTY, pc, rlClosed, errorListeners,
                   pipeInput, aiCalls, isActive, rl, ends, lastCall>>
    /\ UNCHANGED libraryVars

\* processAIResponse after callAI rejected, then _onError
EDTReject(net) ==
    /\ pc = "Running"
    /\ inFlight > 0
    /\ LET r == callAI(chatHistory, config, apiKey, net)
           h == onError(isActive, out, r.message)
       IN  /\ ~r.ok
           /\ out' = h.out
           /\ asking' = h.asking
    /\ inFlight' = inFlight - 1
    /\ UNCHANGED <<impl, options, apiKey, isTTY, chatHistory, pc, rlClosed,
                   errorListeners, pipeInput, aiCalls, isActive, rl, ends, lastCall>>
    /\ UNCHANGED libraryVars

\* the readline interface emits 'error': the listener of start() re-emits it
\* and _onError handles it
EDTRlError ==
    /\ pc = "Running"
    /\ rl = "open"
    /\ Count(out, "inputerror") < MaxInputErrors
    /\ LET h == onError(isActive, Append(out, Ev("inputerror", <<>>)), InputFailure)
       IN  /\ out' = h.out
           /\ asking' = h.asking
    /\ UNCHANGED <<impl, options, apiKey, isTTY, chatHistory, pc, rlClosed,
                   errorListeners, pipeInput, aiCalls, isActive, rl, inFlight,
                   ends, lastCall>>
    /\ UNCHANGED libraryVars

\* stop() called by the owner of the object
EDTStop ==
    /\ pc = "Running"
    /\ LET s == stop(out)
       IN  /\ returned' = s.returned
           /\ isActive' = s.isActive
           /\ rl' = s.rl
           /\ asking' = s.asking
           /\ ends' = s.ends
           /\ out' = s.out
    /\ UNCHANGED <<impl, options, apiKey, isTTY, chatHistory, pc, rlClosed,
                   errorListeners, pipeInput, aiCalls, inFlight, lastCall>>
    /\ UNCHANGED edtLibraryVars

\* the SIGINT handler the script installs after therapy.start()
EDTSigint ==
    /\ pc = "Running"
    /\ Count(out, "greeting") > 0
    /\ LET s == stop(Append(out, Ev("sigint", <<>>)))
       IN  /\ returned' = s.returned
           /\ isActive' = s.isActive
           /\ rl' = s.rl
           /\ asking' = s.asking
           /\ ends' = s.ends
           /\ out' = s.out
    /\ pc' = "Exited"
    /\ UNCHANGED <<impl, options, apiKey, isTTY, chatHistory, rlClosed,
                   errorListeners, pipeInput, aiCalls, inFlight, lastCall>>
    /\ UNCHANGED edtLibraryVars

NextEDT ==
    \/ EDTStart
    \/ \E input \in EDTLines : EDTLine(input)
    \/ \E net \in SessionNet : EDTResolve(net)
    \/ \E net \in SessionNet : EDTReject(net)
    \/ EDTRlError
    \/ EDTStop
    \/ EDTSigint

SpecEDT == InitEDT /\ [][NextEDT]_vars

\* processAIResponse(userInput) called by the owner of the object, up to the
\* await of callAI; the method is public and tests neither isActive nor rl
EDTProcess(input) ==
    /\ pc = "Running"
    /\ aiCalls < MaxCalls
    /\ chatHistory' = Append(chatHistory, Msg("user", input))
    /\ out' = Append(out, Ev("thinking", <<>>))
    /\ aiCalls' = aiCalls + 1
    /\ inFlight' = inFlight + 1
    /\ UNCHANGED <<impl, options, apiKey, isTTY, pc, rlClosed, errorListeners,
                   pipeInput, isActive, rl, asking, ends, lastCall>>
    /\ UNCHANGED libraryVars

\* the event-driven session with its public methods called in any order
NextEDTCalls ==
    \/ EDTStart
    \/ \E input \in EDTLines : EDTLine(input)
    \/ \E input \in EDTLines : EDTProcess(input)
    \/ \E net \in SessionNet : EDTResolve(net)
    \/ \E net \in SessionNet : EDTReject(net)
    \/ EDTRlError
    \/ EDTStop
    \/ EDTSigint

SpecEDTCalls == InitEDT /\ [][NextEDTCalls]_vars

-----------------------------------------------------------------------------
(* One-time events: createOneTimeEmitter of lib/event-examples.js.  Each    *)
(* waitForResponse call registers a once-listener for 'response' and arms a *)
(* timer; the timeouts are parameters of the calls, so the timers of the    *)
(* pending calls may fire in any order.                                     *)

\* the data passed to simulateResponse
ResponseData == {<<"Response received!">>, <<"Late">>}

\* the message of the rejection
ResponseTimeout == <<"Response timeout">>

\* one entry of the log of the one-time emitter: the call or timer, the index
\* of the promise it belongs to, the data, and for a simulateResponse the
\* promises that were unsettled before and those it resolved
OEv(ev, id, data, unsettled, resolved) ==
    [ev |-> ev, id |-> id, data |-> data, unsettled |-> unsettled,
     resolved |-> resolved]

\* the promises not settled
Unsettled == {i \in 1..Len(promises) : promises[i].state = "pending"}

\* the promises whose once-listener is registered on 'response'
Listening == {i \in 1..Len(promises) : promises[i].listening}

InitOnce ==
    /\ impl = "once"
    /\ options = [mode |-> str_cbt, provider |-> str_ollama, model |-> Undefined]
    /\ apiKey = FALSE
    /\ isTTY = TRUE
    /\ chatHistory = <<>>
    /\ pc = "Created"
    /\ rlClosed = FALSE
    /\ errorListeners = 0
    /\ pipeInput = <<>>
    /\ aiCalls = 0
    /\ out = <<>>
    /\ isActive = FALSE
    /\ rl = "null"
    /\ asking = FALSE
    /\ inFlight = 0
    /\ ends = <<>>
    /\ lastCall = NoCall
    /\ LibraryIdle

\* waitForResponse(timeout): the executor arms the timer and registers the
\* once-listener
waitForResponse ==
    /\ impl = "once"
    /\ Len(promises) < MaxWaits
    /\ promises' = Append(promises, [state |-> "pending", value |-> <<>>,
                                     listening |-> TRUE, timer |-> TRUE])
    /\ out' = Append(out, OEv("waitForResponse", Len(promises) + 1, <<>>, {}, {}))
    /\ UNCHANGED <<impl, options, apiKey, isTTY, chatHistory, pc, rlClosed,
                   errorListeners, pipeInput, aiCalls, isActive, rl, asking,
                   inFlight, ends, lastCall, calls, sessionId, sessionStartTime,
                   managerMessageCount, timers, returned, clock,
                   sessionActive, thinkingInterval, intervals>>

\* simulateResponse(data): emit('response', data) runs every registered
\* once-listener, which is removed, clears its timer and resolves its promise
simulateResponse(data) ==
    /\ impl = "once"
    /\ clock < MaxOps
    /\ clock' = clock + 1
    /\ promises' = [i \in 1..Len(promises) |->
                      IF promises[i].listening
                      THEN [state |-> "resolved", value |-> data,
                            listening |-> FALSE, timer |-> FALSE]
                      ELSE promises[i]]
    /\ out' = Append(out, OEv("simulateResponse", 0, data, Unsettled, Listening))
    /\ UNCHANGED <<impl, options, apiKey, isTTY, chatHistory, pc, rlClosed,
                   errorListeners, pipeInput, aiCalls, isActive, rl, asking,
                   inFlight, ends, lastCall, calls, sessionId, sessionStartTime,
                   managerMessageCount, timers, returned,
                   sessionActive, thinkingInterval, intervals>>

\* the timer of the i-th call fires: removeAllListeners('response') removes
\* the listeners of all calls, then the promise of the i-th call is rejected
ResponseTimeoutFires(i) ==
    /\ impl = "once"
    /\ promises[i].timer
    /\ promises' = [j \in 1..Len(promises) |->
                      IF j = i
                      THEN [state |-> "rejected", value |-> ResponseTimeout,
                            listening |-> FALSE, timer |-> FALSE]
                      ELSE [promises[j] EXCEPT !.listening = FALSE]]
    /\ out' = Append(out, OEv("timeout", i, <<>>, {}, {}))
    /\ UNCHANGED <<impl, options, apiKey, isTTY, chatHistory, pc, rlClosed,
                   errorListeners, pipeInput, aiCalls, isActive, rl, asking,
                   inFlight, ends, lastCall, calls, sessionId, sessionStartTime,
                   managerMessageCount, timers, returned, clock,
                   sessionActive, thinkingInterval, intervals>>

NextOnce ==
    \/ waitForResponse
    \/ \E data \in ResponseData : simulateResponse(data)
    \/ \E i \in 1..Len(promises) : ResponseTimeoutFires(i)

SpecOnce == InitOnce /\ [][NextOnce]_vars

-----------------------------------------------------------------------------
(* Class-based emitter: TherapyEventEmitter of lib/event-examples.js        *)

\* the arguments of receiveUserInput: a text and the empty string (falsy)
EmitterInputs == {<<"Hello">>, <<>>}

\* one event of the emitter; handle names the interval of a 'thinking' event
TEv(ev, text, handle) == [ev |-> ev, text |-> text, handle |-> handle]

\* the user of the emitter may have registered a listener for 'error'
InitEmitter ==
    /\ impl = "emitter"
    /\ options = [mode |-> str_cbt, provider |-> str_ollama, model |-> Undefined]
    /\ apiKey = FALSE
    /\ isTTY = TRUE
    /\ chatHistory = <<>>
    /\ pc = "Created"
    /\ rlClosed = FALSE
    /\ errorListeners \in {0, 1}
    /\ pipeInput = <<>>
    /\ aiCalls = 0
    /\ out = <<>>
    /\ isActive = FALSE
    /\ rl = "null"
    /\ asking = FALSE
    /\ inFlight = 0
    /\ ends = <<>>
    /\ lastCall = NoCall
    /\ LibraryIdle

\* TherapyEventEmitter.startSession(); the handle of the new interval
\* overwrites this.thinkingInterval
Emitter_startSession ==
    /\ impl = "emitter"
    /\ clock < MaxEmitterCalls
    /\ clock' = clock + 1
    /\ sessionActive' = TRUE
    /\ out' = Append(out, TEv("sessionStart", <<>>, 0))
    /\ thinkingInterval' = clock'
    /\ intervals' = intervals \cup {clock'}
    /\ returned' = Ret("startSession", "undefined", 0)
    /\ UNCHANGED <<impl, options, apiKey, isTTY, chatHistory, pc, rlClosed,
                   errorListeners, pipeInput, aiCalls, isActive, rl, asking,
                   inFlight, ends, lastCall, calls, sessionId, sessionStartTime,
                   managerMessageCount, timers, promises>>

\* an interval that was not cleared fires after 5000 ms
IntervalFires(handle) ==
    /\ impl = "emitter"
    /\ handle \in intervals
    /\ Count(out, "thinking") < MaxTicks
    /\ out' = Append(out, TEv("thinking", <<>>, handle))
    /\ UNCHANGED <<impl, options, apiKey, isTTY, chatHistory, pc, rlClosed,
                   errorListeners, pipeInput, aiCalls, isActive, rl, asking,
                   inFlight, ends, lastCall, calls, sessionId, sessionStartTime,
                   managerMessageCount, timers, returned, clock, emitterVars>>

\* TherapyEventEmitter.receiveUserInput(input)
Emitter_receiveUserInput(input) ==
    /\ impl = "emitter"
    /\ clock < MaxEmitterCalls
    /\ clock' = clock + 1
    /\ IF input = <<>>
       THEN IF errorListeners = 0
            THEN /\ returned' = Ret("receiveUserInput", "throw", 0)
                 /\ UNCHANGED <<out, timers>>
            ELSE /\ out' = Append(out, TEv("error", <<"Invalid input">>, 0))
                 /\ returned' = Ret("receiveUserInput", "undefined", 0)
                 /\ UNCHANGED timers
       ELSE /\ out' = Append(out, TEv("userInput", input, 0))
            /\ timers' = Append(timers, [text |-> input])
            /\ returned' = Ret("receiveUserInput", "undefined", 0)
    /\ UNCHANGED <<impl, options, apiKey, isTTY, chatHistory, pc, rlClosed,
                   errorListeners, pipeInput, aiCalls, isActive, rl, asking,
                   inFlight, ends, lastCall, calls, sessionId, sessionStartTime,
                   managerMessageCount, emitterVars>>

\* the 1000 ms timer of a receiveUserInput call fires
ProcessingTimerFires ==
    /\ impl = "emitter"
    /\ timers /= <<>>
    /\ out' = Append(out, TEv("response", <<"Processed: ">> \o Head(timers).text, 0))
    /\ timers' = Tail(timers)
    /\ UNCHANGED <<impl, options, apiKey, isTTY, chatHistory, pc, rlClosed,
                   errorListeners, pipeInput, aiCalls, isActive, rl, asking,
                   inFlight, ends, lastCall, calls, sessionId, sessionStartTime,
                   managerMessageCount, returned, clock, emitterVars>>

\* TherapyEventEmitter.endSession(): clears the interval whose handle is in
\* this.thinkingInterval, if any
Emitter_endSession ==
    /\ impl = "emitter"
    /\ clock < MaxEmitterCalls
    /\ clock' = clock + 1
    /\ intervals' = IF thinkingInterval /= 0
                    THEN intervals \ {thinkingInterval}
                    ELSE intervals
    /\ sessionActive' = FALSE
    /\ out' = Append(out, TEv("sessionEnd", <<>>, 0))
    /\ returned' = Ret("endSession", "undefined", 0)
    /\ UNCHANGED <<impl, options, apiKey, isTTY, chatHistory, pc, rlClosed,
                   errorListeners, pipeInput, aiCalls, isActive, rl, asking,
                   inFlight, ends, lastCall, calls, sessionId, sessionStartTime,
                   managerMessageCount, timers, promises, thinkingInterval>>

NextEmitter ==
    \/ Emitter_startSession
    \/ \E handle \in intervals : IntervalFires(handle)
    \/ \E input \in EmitterInputs : Emitter_receiveUserInput(input)
    \/ ProcessingTimerFires
    \/ Emitter_endSession

SpecEmitter == InitEmitter /\ [][NextEmitter]_vars

-----------------------------------------------------------------------------
(* Properties *)

\* the session reads lines at a prompt (not the piped branch of cli.js)
Interactive == ~(impl = "cli" /\ ~isTTY)

\* the contents of the user messages of a transcript, in order
UserContents(h) ==
    LET u == SelectSeq(h, LAMBDA m : m.role = "user")
    IN  [i \in 1..Len(u) |-> u[i].content]

Last(s) == s[Len(s)]

mode_Person == <<"P","e","r","s","o","n">>

\* the persona each mode of Modes stands for
PersonaOf(mode) ==
    CASE mode = str_cbt     -> THERAPY_PROMPTS.cbt
      [] mode = mode_Person -> THERAPY_PROMPTS.person
      [] OTHER              -> THERAPY_PROMPTS.cbt

\* C1: from the creation of the transcript on, in every state of a session,
\* the first transcript element is the system message holding the persona of
\* the configured mode, and no other element is a system message; no turn
\* (successful, failed or exit) replaces, removes or modifies it.
C1_SystemMessageFirstAndOnly ==
    pc /= "init" =>
        /\ Len(chatHistory) >= 1
        /\ chatHistory[1] = Msg("system", PersonaOf(options.mode))
        /\ \A i \in 2..Len(chatHistory) : chatHistory[i].role /= "system"

\* C1 witness: a session in person mode (given in another letter case) that
\* had a failed turn and a successful turn and was ended by an exit command
C1_Witness ==
    /\ pc = "Ended"
    /\ options.mode = mode_Person
    /\ Count(out, "farewell") = 1
    /\ Count(out, "error") = 1
    /\ Count(out, "reply") = 1
    /\ chatHistory[1].content = THERAPY_PROMPTS.person

\* C2: in the interactive loop, whenever a turn is complete, after S successful
\* and F failed turns the transcript length is 1 + 2S + F (one more while a
\* backend call is outstanding), and with no failed turn the transcript is the
\* system message followed by user/assistant pairs in that order.
C2_TranscriptLength ==
    LET S == Count(out, "reply")
        F == Count(out, "error")
    IN  (Interactive /\ pc /= "init") =>
          /\ pc \in {"AwaitingInput", "Ended"} => Len(chatHistory) = 1 + 2 * S + F
          /\ pc = "WaitingOnBackend" => Len(chatHistory) = 1 + 2 * S + F + 1
          /\ (F = 0 /\ pc \in {"AwaitingInput", "Ended"}) =>
                \A i \in 2..Len(chatHistory) :
                    chatHistory[i].role = IF i % 2 = 0 THEN "user" ELSE "assistant"

\* C2 witness: two successful turns followed by a failed one
C2_Witness ==
    /\ Interactive
    /\ pc = "AwaitingInput"
    /\ Count(out, "reply") = 2
    /\ Count(out, "error") = 1
    /\ Last(chatHistory).role = "user"
    /\ Len(chatHistory) = 6

\* the text the user supplied last: the line read at the prompt, or the piped text
LastInput(log) ==
    LET at == {i \in 1..Len(log) : log[i].ev \in {"line", "echo"}}
    IN  log[CHOOSE i \in at : \A j \in at : i >= j].text

\* C3: when the backend call of a turn fails, the transcript after the turn is
\* the transcript before the turn with exactly the user's message appended:
\* accepting the input appends the user message, and the failure appends
\* nothing and removes nothing.
C3_FailedTurnKeepsOnlyUserMessage ==
    [][ /\ Count(out', "thinking") > Count(out, "thinking") =>
              chatHistory' = Append(chatHistory, Msg("user", LastInput(out')))
        /\ Count(out', "error") > Count(out, "error") =>
              /\ chatHistory' = chatHistory
              /\ Last(chatHistory') = Msg("user", LastInput(out)) ]_vars

\* C3 witness: provider openai without credential, one input line; the
\* transcript is the system message and the unanswered user message
C3_Witness ==
    /\ toLowerCase(options.provider) = str_openai
    /\ ~apiKey
    /\ pc = "AwaitingInput"
    /\ Count(out, "error") = 1
    /\ Len(chatHistory) = 2
    /\ chatHistory[2] = Msg("user", line_Hi)
    /\ \E i \in 1..Len(out) :
          out[i] = Ev("error", <<"OpenAI API key not found. Please set OPENAI_API_KEY in your .env file.">>)

\* the session is awaiting input right after a failed backend call
AfterFailure ==
    /\ pc = "AwaitingInput"
    /\ Len(out) >= 2
    /\ out[Len(out) - 1].ev \in {"error", "notice"}

\* C4: a backend failure never ends an interactive session: the step that
\* settles a failed call reports the error once, closes nothing and issues the
\* next prompt; and in the state it leaves, every input line is accepted.
C4_FailureReturnsToAwaitingInput ==
    /\ [][ (Interactive /\ pc = "WaitingOnBackend"
                /\ Count(out', "reply") = Count(out, "reply")) =>
              /\ Count(out', "error") = Count(out, "error") + 1
              /\ pc' = "AwaitingInput"
              /\ ~rlClosed'
              /\ Last(out') = Ev("prompt", <<>>)
              /\ Count(out', "farewell") = 0 ]_vars
    /\ [](AfterFailure =>
              \A l \in Lines :
                  (isExitCommand(l) \/ UserCount(chatHistory) < MaxTurns)
                      => ENABLED ReceiveLine(l))
    /\ [][ (AfterFailure /\ pc' = "WaitingOnBackend") =>
              /\ chatHistory' = Append(chatHistory, Msg("user", LastInput(out')))
              /\ aiCalls' = aiCalls + 1 ]_vars

\* C4 witness: the first turn failed and a second input line is being processed
C4_Witness ==
    /\ Interactive
    /\ pc = "WaitingOnBackend"
    /\ Count(out, "error") = 1
    /\ Count(out, "reply") = 0
    /\ UserCount(chatHistory) = 2
    /\ aiCalls = 2

\* the exit tokens as typed, in several letter cases
ExitLinesAnyCase == { line_exit, line_EXIT, line_Bye, line_quit }

\* C5: an input line equal to exit, quit or bye in any letter case ends the
\* session: it is the last line read, the farewell follows it and the
\* readline interface is closed.
C5_ExitTokenEndsSession ==
    \A i \in 1..Len(out) :
        (out[i].ev = "line" /\ out[i].text \in ExitLinesAnyCase) =>
            /\ pc = "Ended"
            /\ rlClosed
            /\ Len(out) = i + 1
            /\ out[i + 1].ev = "farewell"

\* C5 witness: "Bye" typed after one answered turn
C5_Witness ==
    /\ pc = "Ended"
    /\ Len(out) >= 2
    /\ out[Len(out) - 1] = Ev("line", line_Bye)
    /\ Count(out, "reply") = 1

\* C6: an input line that equals an exit token after trimming and case
\* folding ends the session and causes no backend call.
C6_TrimmedExitTokenEndsSession ==
    \A i \in 1..Len(out) :
        (out[i].ev = "line"
            /\ toLowerCase(trim(out[i].text)) \in {line_exit, line_quit, <<"b","y","e">>}) =>
            /\ pc = "Ended"
            /\ Len(out) = i + 1
            /\ out[i + 1].ev = "farewell"

\* the number of backend calls started up to position i of the log
CallsUpTo(log, i) == Cardinality({j \in 1..i : log[j].ev = "thinking"})

\* C7: the line "exit now", which starts with an exit token but is not one,
\* does not end the session: it is appended as a user message and a backend
\* call is made with it.
C7_ExitNowIsNotExit ==
    \A i \in 1..Len(out) :
        out[i] = Ev("line", line_exit_now) =>
            /\ Len(out) > i
            /\ out[i + 1].ev = "thinking"
            /\ LET k == CallsUpTo(out, i + 1)
               IN  /\ aiCalls >= k
                   /\ Len(UserContents(chatHistory)) >= k
                   /\ UserContents(chatHistory)[k] = line_exit_now
            /\ (Len(out) = i + 1 => pc = "WaitingOnBackend")

\* C7 witness: "exit now" was typed and the backend call for it is outstanding
C7_Witness ==
    /\ pc = "WaitingOnBackend"
    /\ Last(chatHistory) = Msg("user", line_exit_now)
    /\ out[Len(out) - 1] = Ev("line", line_exit_now)
    /\ aiCalls = 1

\* the step reads an exit token at the prompt
ReadsExitToken ==
    /\ Len(out') > Len(out)
    /\ out'[Len(out) + 1].ev = "line"
    /\ out'[Len(out) + 1].text \in ExitLinesAnyCase

\* C8: processing an exit command leaves the transcript unchanged, makes no
\* backend call and emits the farewell once; after it nothing is read,
\* written or processed.
C8_ExitLeavesTranscriptUnchanged ==
    [][ /\ ReadsExitToken =>
              /\ chatHistory' = chatHistory
              /\ aiCalls' = aiCalls
              /\ Count(out', "thinking") = Count(out, "thinking")
              /\ Count(out, "farewell") = 0
              /\ Count(out', "farewell") = 1
              /\ pc' = "Ended"
        /\ Count(out, "farewell") > 0 => UNCHANGED vars ]_vars

\* C8 witness: two answered turns, then "quit"
C8_Witness ==
    /\ pc = "Ended"
    /\ out[Len(out) - 1] = Ev("line", line_quit)
    /\ Count(out, "farewell") = 1
    /\ Count(out, "reply") = 2
    /\ Len(chatHistory) = 5
    /\ aiCalls = 2

\* the lines read at the prompt for which a turn was started, in order
RECURSIVE AcceptedLines(_)
AcceptedLines(log) ==
    IF Len(log) < 2 THEN <<>>
    ELSE IF log[1].ev = "line" /\ log[2].ev = "thinking"
         THEN <<log[1].text>> \o AcceptedLines(Tail(log))
         ELSE AcceptedLines(Tail(log))

\* C9: in an interactive session the user messages of the transcript hold, in
\* order, the raw text of the non-exit lines read: not trimmed, not case-folded.
C9_UserMessageIsRawLine ==
    (Interactive /\ pc /= "init") => UserContents(chatHistory) = AcceptedLines(out)

\* C9 witness: the line " Hi! " (blanks on both sides, an upper-case letter) is
\* in the transcript as typed
C9_Witness ==
    /\ Interactive
    /\ pc = "AwaitingInput"
    /\ Len(chatHistory) = 3
    /\ chatHistory[2] = Msg("user", <<" ","H","i","!"," ">>)
    /\ chatHistory[3].role = "assistant"

\* the messages the events of a log stand for, in the order of the events
RECURSIVE MessagesOf(_)
MessagesOf(log) ==
    IF log = <<>> THEN <<>>
    ELSE IF Len(log) >= 2 /\ log[1].ev = "line" /\ log[2].ev = "thinking"
         THEN <<Msg("user", log[1].text)>> \o MessagesOf(Tail(log))
    ELSE IF log[1].ev = "reply"
         THEN <<Msg("assistant", log[1].text)>> \o MessagesOf(Tail(log))
    ELSE MessagesOf(Tail(log))

\* C10: in the interactive loop every prompt but the first directly follows
\* the outcome (reply or error) of the turn before it, every line read
\* directly follows a prompt, every outcome follows the start of its backend
\* call, and the transcript holds the messages in the order of these events:
\* user(1), assistant(1), user(2), ...
C10_OutcomeBeforeNextPrompt ==
    (Interactive /\ pc /= "init") =>
        /\ \A i \in 1..Len(out) :
              /\ out[i].ev = "prompt" =>
                    \/ i = 1
                    \/ out[i - 1].ev \in {"reply", "error", "notice"}
                    \/ out[i - 1].ev = "greeting" /\ i = 2
              /\ out[i].ev = "line" => i > 1 /\ out[i - 1].ev = "prompt"
              /\ out[i].ev = "thinking" => i > 1 /\ out[i - 1].ev = "line"
              /\ out[i].ev \in {"reply", "error"} => i > 1 /\ out[i - 1].ev = "thinking"
        /\ Tail(chatHistory) = MessagesOf(out)
        /\ pc = "AwaitingInput" =>
              /\ Last(out).ev = "prompt"
              /\ Count(out, "prompt") = Count(out, "reply") + Count(out, "error") + 1
              /\ UserCount(chatHistory) = Count(out, "reply") + Count(out, "error")
        /\ pc = "WaitingOnBackend" =>
              /\ Count(out, "prompt") = Count(out, "reply") + Count(out, "error") + 1
              /\ UserCount(chatHistory) = Count(out, "reply") + Count(out, "error") + 1

\* C10 witness: a failed turn, then an answered turn, then the third prompt
C10_Witness ==
    /\ Interactive
    /\ pc = "AwaitingInput"
    /\ Count(out, "prompt") = 3
    /\ Len(chatHistory) = 4
    /\ chatHistory[2].role = "user"
    /\ chatHistory[3].role = "user"
    /\ chatHistory[4].role = "assistant"

\* the opening line each mode of Modes stands for
OpeningLineOf(mode) ==
    IF mode = mode_Person
    THEN <<"I'm here with you. What would you like to talk about today?">>
    ELSE <<"I'm here to support you. What's been on your mind lately?">>

\* C13: a session started by createTherapySession (lib/therapy.js, which
\* index.js exports, and dist/therapy.js) has the persona of the configured
\* mode as its sole message until the first line is read, and has emitted the
\* persona's opening line exactly once, before the first prompt.
C13_StartEmitsOpeningLine ==
    (impl \in {"lib", "dist"} /\ pc /= "init") =>
        /\ Count(out, "line") = 0 =>
              chatHistory = <<Msg("system", PersonaOf(options.mode))>>
        /\ Count(out, "greeting") = 1
        /\ out[1] = Ev("greeting", OpeningLineOf(options.mode))
        /\ out[2] = Ev("prompt", <<>>)

\* the session runs the piped branch of cli.js
Piped == impl = "cli" /\ ~isTTY

\* the text piped stdin has delivered, chunk after chunk
RECURSIVE PipedText(_)
PipedText(log) ==
    IF log = <<>> THEN <<>>
    ELSE (IF log[1].ev = "data" THEN log[1].text ELSE <<>>) \o PipedText(Tail(log))

\* a text that is empty or holds only white space
Blank(t) == \A i \in 1..Len(t) : t[i] \in {" ", "\t", "\n", "\r"}

\* C14: in piped mode, when the stream ends empty or holding only white
\* space, the "no input" notice is emitted once, no user message is appended,
\* no backend call is made, and the session has ended.
C14_BlankPipeEndsWithNotice ==
    (Piped /\ pc \notin {"init", "PipeReading"} /\ Blank(PipedText(out))) =>
        /\ pc = "Ended"
        /\ Last(out) = Ev("noinput", <<>>)
        /\ Count(out, "noinput") = 1
        /\ chatHistory = <<Msg("system", PersonaOf(options.mode))>>
        /\ aiCalls = 0
        /\ Count(out, "thinking") + Count(out, "reply") + Count(out, "error") = 0

\* C14 witness: the stream delivered a blank and a line feed, then ended
C14_Witness ==
    /\ Piped
    /\ pc = "Ended"
    /\ PipedText(out) = <<" ", "\n">>
    /\ Last(out).ev = "noinput"

\* a text without the white space at its ends
Stripped(t) ==
    LET keep == {i \in 1..Len(t) : ~Blank(<<t[i]>>)}
    IN  SubSeq(t, CHOOSE i \in keep : \A j \in keep : i <= j,
                  CHOOSE i \in keep : \A j \in keep : i >= j)

KeyNotFound == <<"OpenAI API key not found. Please set OPENAI_API_KEY in your .env file.">>

\* C20: without the API credential a session starts without any error being
\* reported; with provider openai every backend call then fails with the
\* missing-credential error and makes no network request; with provider
\* ollama the outcome of a call does not depend on the credential.
C20_MissingCredential ==
    (pc /= "init" /\ ~apiKey) =>
        /\ aiCalls = 0 => Count(out, "error") = 0
        /\ toLowerCase(options.provider) = str_openai =>
              /\ \A net \in SessionNet :
                    LET r == callAI(chatHistory, config, apiKey, net)
                    IN  ~r.ok /\ r.requests = <<>> /\ r.message = KeyNotFound
              /\ Count(out, "reply") = 0
              /\ \A i \in 1..Len(out) : out[i].ev = "error" => out[i].text = KeyNotFound
        /\ toLowerCase(options.provider) = str_ollama =>
              /\ \A net \in SessionNet :
                    callAI(chatHistory, config, FALSE, net)
                        = callAI(chatHistory, config, TRUE, net)
              /\ \A i \in 1..Len(out) : out[i].ev = "error" => out[i].text /= KeyNotFound

\* C20 witness: provider given as "OpenAI", no credential: the session started
\* and its first backend call failed
C20_Witness ==
    /\ ~apiKey
    /\ options.provider = <<"O","p","e","n","A","I">>
    /\ pc = "AwaitingInput"
    /\ aiCalls = 1
    /\ Count(out, "error") = 1

\* the provider callAI works with: 'ollama' when config.provider is absent
GivenProvider == IF options.provider = Undefined THEN str_ollama ELSE options.provider

Unsupported == toLowerCase(GivenProvider) \notin {str_openai, str_ollama}

\* C19: callAI with a provider that is, case folded, neither openai nor
\* ollama fails with the error "Unsupported AI provider: <provider>" and
\* makes no network request, whatever the network would have answered; a
\* supported provider makes exactly one request.
C19_UnsupportedProvider ==
    lastCall.called =>
        IF Unsupported
        THEN /\ ~lastCall.result.ok
             /\ lastCall.result.requests = <<>>
             /\ lastCall.result.message = <<"Unsupported AI provider: ">> \o GivenProvider
        ELSE (lastCall.result.ok \/ lastCall.result.message /= KeyNotFound)
                => Len(lastCall.result.requests) = 1

\* C19 witness: provider "grok" was called while the network would have replied
C19_Witness ==
    /\ lastCall.called
    /\ options.provider = <<"g","r","o","k">>
    /\ lastCall.net.kind = "ok"
    /\ ~lastCall.result.ok

\* C11: in an EventDrivenTherapy session at most one callAI is outstanding,
\* and while one is outstanding no input prompt is pending (so no new user
\* message can be appended).
C11_OneOutstandingCall ==
    impl = "edt" =>
        /\ inFlight <= 1
        /\ inFlight > 0 => ~asking

\* C12: once an EventDrivenTherapy session has ended (stop() returned true)
\* and for as long as it is not started again, no step modifies the
\* transcript or emits a reply.
C12_EndedIsTerminal ==
    [][ (impl = "edt" /\ ~isActive /\ ends /= <<>> /\ ~isActive') =>
            /\ chatHistory' = chatHistory
            /\ Count(out', "reply") = Count(out, "reply") ]_vars

\* C16: after the readline interface reported an input failure the session
\* is no longer active and no input prompt is issued any more.
C16_InputFailureIsFatal ==
    \A i \in 1..Len(out) :
        out[i].ev = "inputerror" =>
            /\ ~isActive
            /\ \A j \in (i + 1)..Len(out) : out[j].ev /= "prompt"

\* C17: a session of createTherapySession or startTherapySession that an
\* external interrupt ended has emitted the farewell exactly once.
C17_InterruptEmitsFarewell ==
    pc = "Killed" => Count(out, "farewell") = 1

AssistantCount(h) == Cardinality({i \in 1..Len(h) : h[i].role = "assistant"})

\* a step in which 'session:end' is emitted
SessionEnds == Len(ends') > Len(ends)

InputsAccepted ==
    Cardinality({i \in 1..Len(out) :
                    \/ out[i].ev = "line" /\ out[i].text \notin ExitLinesAnyCase
                    \/ out[i].ev = "echo"})

\* C21: no call is retried: callAI has been invoked exactly once per accepted
\* non-exit input, every invocation but a pending one has produced exactly
\* one outcome (reply or error), and one invocation makes at most one network
\* request whatever the network answers.
C21_NoAutomaticRetry ==
    pc /= "init" =>
        /\ aiCalls = InputsAccepted
        /\ aiCalls = Count(out, "reply") + Count(out, "error")
                        + (IF pc \in {"WaitingOnBackend", "PipeWaiting"} THEN 1 ELSE 0)
        /\ \A net \in AINet :
              Len(callAI(chatHistory, config, apiKey, net).requests) <= 1

\* C21 witness: a call failed, the user entered a new line, and only then a
\* second call was made
C21_Witness ==
    /\ pc = "WaitingOnBackend"
    /\ Count(out, "error") = 1
    /\ Count(out, "reply") = 0
    /\ InputsAccepted = 2
    /\ aiCalls = 2

\* the backend callAI selects
ToOpenAI == toLowerCase(GivenProvider) = str_openai
ToOllama == toLowerCase(GivenProvider) = str_ollama

\* callAI was invoked and its request went out to a backend
Requested == lastCall.called /\ (ToOllama \/ (ToOpenAI /\ apiKey))

\* C22: callAI does not change the messages it is given: after the call, for
\* every provider and every outcome, the transcript equals the sequence that
\* was passed, and a request that went out carries that sequence.
C22_TranscriptNotMutated ==
    lastCall.called =>
        /\ chatHistory = lastCall.messages
        /\ \A i \in 1..Len(lastCall.result.requests) :
              lastCall.result.requests[i].messages = lastCall.messages

\* C22 witness: a call on a two-message transcript that returned a reply
C22_Witness ==
    /\ lastCall.called
    /\ lastCall.result.ok
    /\ Len(lastCall.messages) = 2
    /\ ToOpenAI

\* C23: whenever the backend answers with a non-success status, the call
\* fails with "<backend> API error (<status>): <text>", the text being the
\* server's (the status text when the server supplies none), and never with
\* the connection-failure message.
C23_StatusIsRejected ==
    (Requested /\ lastCall.net.kind = "status") =>
        /\ ~lastCall.result.ok
        /\ lastCall.result.message =
              <<IF ToOpenAI THEN "OpenAI API error (" ELSE "Ollama API error (",
                ToString(lastCall.net.status), "): ">>
              \o (IF lastCall.net.text /= <<>> THEN lastCall.net.text
                  ELSE lastCall.net.statusText)

\* C24: when the request cannot connect (fetch rejects with 'fetch failed')
\* the call fails with the unreachable message of its backend, which for
\* Ollama names http://localhost:11434; any other rejection of fetch is
\* propagated with its message unchanged.
C24_UnreachableNamesBackend ==
    (Requested /\ lastCall.net.kind = "throw") =>
        /\ ~lastCall.result.ok
        /\ lastCall.result.message =
              IF lastCall.net.text /= <<"fetch failed">> THEN lastCall.net.text
              ELSE IF ToOpenAI
              THEN <<"Failed to connect to OpenAI API. Please check your internet connection.">>
              ELSE <<"Failed to connect to Ollama. Make sure Ollama is running locally (http://localhost:11434).">>

\* C24 witness: Ollama could not be reached
C24_Witness ==
    /\ lastCall.called
    /\ ToOllama
    /\ lastCall.net = NetThrow(<<"fetch failed">>)
    /\ ~lastCall.result.ok
    /\ Len(lastCall.result.requests) = 1

\* C25: callAI sends its request to the backend of the provider, with the
\* model of the configuration, or gpt-4 (openai) / llama3 (ollama) when none
\* is specified, and with the whole transcript as messages.
C25_BackendAndModel ==
    Requested =>
        /\ Len(lastCall.result.requests) = 1
        /\ LET q == lastCall.result.requests[1]
           IN  /\ q.url = IF ToOpenAI THEN "https://api.openai.com/v1/chat/completions"
                                      ELSE "http://localhost:11434/api/chat"
               /\ q.model = IF options.model \in {Undefined, <<>>}
                            THEN (IF ToOpenAI THEN <<"gpt-4">> ELSE <<"llama3">>)
                            ELSE options.model
               /\ q.messages = lastCall.messages

\* C25 witness: provider "OpenAI" with a model specified, and with none
C25_Witness ==
    /\ lastCall.called
    /\ options.provider = <<"O","p","e","n","A","I">>
    /\ apiKey
    /\ options.model = <<"m">>
    /\ lastCall.result.requests[1].model = <<"m">>
    /\ Len(lastCall.messages) = 2

\* the calls of getPromptForMode made so far
Lookups == {i \in 1..Len(calls) : calls[i].fn = "getPromptForMode"}

\* the calls of the opening-line extraction made so far
Extractions == {i \in 1..Len(calls) : calls[i].fn = "startMessage"}

SupportedModes == { str_cbt, str_person, str_trauma }

\* C26: for every mode that, case folded, is none of cbt, person, trauma
\* (the empty string included) getPromptForMode returns the cbt persona.
C26_UnknownModeIsCbt ==
    \A i \in Lookups :
        toLowerCase(calls[i].arg) \notin SupportedModes =>
            calls[i].result = THERAPY_PROMPTS.cbt

\* a text with at least one character
NonEmptyText(t) == \E k \in 1..Len(t) : t[k] /= ""

\* C27: for the modes cbt, person and trauma, in any letter case,
\* getPromptForMode returns a non-empty persona, and the personas of two
\* different modes differ.
C27_SupportedModesDistinct ==
    \A i, j \in Lookups :
        (toLowerCase(calls[i].arg) \in SupportedModes
            /\ toLowerCase(calls[j].arg) \in SupportedModes) =>
            /\ NonEmptyText(calls[i].result)
            /\ toLowerCase(calls[i].arg) /= toLowerCase(calls[j].arg) =>
                  calls[i].result /= calls[j].result

\* C27 witness: the three modes were looked up, one after the other
C27_Witness ==
    /\ Len(calls) = 3
    /\ calls[1].fn = "getPromptForMode" /\ calls[1].arg = str_cbt
    /\ calls[2].fn = "getPromptForMode" /\ calls[2].arg = str_person
    /\ calls[3].fn = "getPromptForMode" /\ calls[3].arg = <<"T","R","A","U","M","A">>

C29_OpeningLineExtraction ==
    \A i \in Extractions :
        /\ calls[i].arg = THERAPY_PROMPTS.cbt =>
              calls[i].result = <<"I'm here to support you. What's been on your mind lately?">>
        /\ calls[i].arg = THERAPY_PROMPTS.person =>
              calls[i].result = <<"I'm here with you. What would you like to talk about today?">>
        /\ calls[i].arg = THERAPY_PROMPTS.trauma =>
              calls[i].result = <<"I'm here to listen, gently and without judgment. What would feel safe to talk about today?">>
        /\ calls[i].arg \in MarkerlessTexts =>
              calls[i].result = <<"I'm here to support you. What's been on your mind lately?">>
        /\ NonEmptyText(calls[i].result)

\* C29 witness: the extraction was applied to the trauma persona, which has
\* no 'Begin', and to a text with quotation marks only before 'Begin'
C29_Witness ==
    /\ Len(calls) = 2
    /\ calls[1] = Called("startMessage", THERAPY_PROMPTS.trauma,
                         <<"I'm here to listen, gently and without judgment. What would feel safe to talk about today?">>)
    /\ calls[2].fn = "startMessage"
    /\ calls[2].arg = <<"\"", "Hello", "\"", " then ", "Begin", " the talk.">>
    /\ calls[2].result = DefaultGreeting

\* a step that is a call of processMessage while no session is active
ProcessMessageWhileIdle ==
    /\ sessionId = 0
    /\ clock' = clock + 1
    /\ returned'.fn = "processMessage"

\* C30: processMessage called while no session is active emits one 'error'
\* event and nothing else, returns false, and leaves the message count (and
\* the pending timers) unchanged.
C30_ProcessMessageWhileIdle ==
    [][ ProcessMessageWhileIdle =>
            /\ returned' = Ret("processMessage", "bool", 0)
            /\ Len(out') = Len(out) + 1
            /\ Last(out').ev = "error"
            /\ Last(out').text = <<"No active session">>
            /\ managerMessageCount' = managerMessageCount
            /\ timers' = timers ]_vars

\* a step that is a call of the public function fn of the event manager
ManagerCall(fn) == clock' = clock + 1 /\ returned'.fn = fn

\* C31: startSession called while a session is in progress emits one
\* 'warning' and no session:start, returns the id of the session in progress,
\* and leaves session id, start time and message count unchanged.
C31_StartWhileActive ==
    [][ (sessionId /= 0 /\ ManagerCall("startSession")) =>
            /\ returned' = Ret("startSession", "id", sessionId)
            /\ Len(out') = Len(out) + 1
            /\ Last(out').ev = "warning"
            /\ Last(out').text = <<"Session already in progress">>
            /\ sessionId' = sessionId
            /\ sessionStartTime' = sessionStartTime
            /\ managerMessageCount' = managerMessageCount
            /\ timers' = timers ]_vars

\* C31 witness: a session with one accepted message was started again
C31_Witness ==
    /\ impl = "manager"
    /\ returned = Ret("startSession", "id", sessionId)
    /\ sessionId /= 0
    /\ managerMessageCount = 1
    /\ Last(out).ev = "warning"

\* the positions of the events named ev in the log of the manager
At(ev) == {i \in 1..Len(out) : out[i].ev = ev}

\* C32: every session of the manager has at most one session:end event, and
\* exactly one as soon as it is no longer the current session; the event's
\* messageCount is the number of processMessage calls accepted (message:received
\* events) of that session; an inactive manager has no id, no start time and
\* a count of 0; endSession on an inactive manager emits one 'warning' and
\* no session:end and returns false, and on an active one returns true.
C32_OneSessionEndPerSession ==
    /\ [](impl = "manager" =>
            /\ \A i \in At("session:start") :
                  Cardinality({j \in At("session:end") :
                                  out[j].sessionId = out[i].sessionId})
                     = IF sessionId = out[i].sessionId THEN 0 ELSE 1
            /\ \A j \in At("session:end") :
                  /\ \E i \in At("session:start") :
                        i < j /\ out[i].sessionId = out[j].sessionId
                  /\ out[j].messageCount =
                        Cardinality({k \in At("message:received") :
                                        k < j /\ out[k].sessionId = out[j].sessionId})
            /\ sessionId = 0 => managerMessageCount = 0 /\ sessionStartTime = 0)
    /\ [][ ManagerCall("endSession") =>
              /\ sessionId' = 0
              /\ Len(out') = Len(out) + 1
              /\ IF sessionId = 0
                 THEN Last(out').ev = "warning" /\ returned'.val = 0
                 ELSE Last(out').ev = "session:end" /\ returned'.val = 1 ]_vars

\* C32 witness: a session with one message ended, then an empty session ended
C32_Witness ==
    /\ impl = "manager"
    /\ Cardinality(At("session:end")) = 2
    /\ \E i, j \in At("session:end") :
          i < j /\ out[i].messageCount = 1 /\ out[j].messageCount = 0
    /\ sessionId = 0

\* the position of the k-th event named ev
Nth(ev, k) == CHOOSE i \in At(ev) : Cardinality({j \in At(ev) : j <= i}) = k

\* C33: the k-th message:processed event (the timers all run 500 ms, so they
\* fire in the order they were set) carries the sessionId and messageId of
\* the k-th message:received event.
C33_ProcessedMatchesReceived ==
    impl = "manager" =>
        \A k \in 1..Cardinality(At("message:processed")) :
            /\ out[Nth("message:processed", k)].sessionId
                  = out[Nth("message:received", k)].sessionId
            /\ out[Nth("message:processed", k)].messageId
                  = out[Nth("message:received", k)].messageId

\* the positions of the events named ev that precede position i
Before(ev, i) == {j \in At(ev) : j < i}

\* the first simulateResponse after position w and before position t
FirstResponseIn(w, t) ==
    LET R == {j \in At("simulateResponse") : w < j /\ j < t}
    IN  IF R = {} THEN 0 ELSE CHOOSE j \in R : \A k \in R : j <= k

\* the position of the waitForResponse call of the i-th promise
WaitOf(i) == CHOOSE j \in At("waitForResponse") : out[j].id = i

\* the position of the timeout of the i-th promise, past the log if none
TimeoutOf(i) ==
    LET T == {j \in At("timeout") : out[j].id = i}
    IN  IF T = {} THEN Len(out) + 1 ELSE CHOOSE j \in T : TRUE

\* C34: a promise of waitForResponse is resolved with the data of the first
\* simulateResponse after its call and before its timeout, if there is one;
\* otherwise it is rejected with 'Response timeout' once its timer fired and
\* pending before; a resolved promise has no listener left (earlier and later
\* simulateResponse calls do not reach it).
C34_SettlesWithFirstResponse ==
    impl = "once" =>
        \A i \in 1..Len(promises) :
            LET r == FirstResponseIn(WaitOf(i), TimeoutOf(i))
            IN  /\ r /= 0 => /\ promises[i].state = "resolved"
                             /\ promises[i].value = out[r].data
                             /\ ~promises[i].listening
                /\ r = 0 =>
                      IF TimeoutOf(i) <= Len(out)
                      THEN /\ promises[i].state = "rejected"
                           /\ promises[i].value = ResponseTimeout
                      ELSE promises[i].state = "pending"

\* C35: a simulateResponse resolves every promise that is not settled when
\* it occurs, whatever timeouts of other calls fired before.
C35_TimeoutAffectsOnlyItsCall ==
    impl = "once" =>
        \A j \in At("simulateResponse") : out[j].resolved = out[j].unsettled

\* the receiveUserInput call a 'response' event answers: the timers all run
\* 1000 ms, so the k-th response answers the k-th userInput
InputOf(i) == Nth("userInput", Cardinality(Before("response", i)) + 1)

\* C36: no 'thinking' event of the class-based emitter, and no 'response' to
\* an input received before, lies between a sessionEnd and the next
\* sessionStart.
C36_SilentAfterEndSession ==
    impl = "emitter" =>
        /\ \A i \in At("thinking") :
              \A j \in Before("sessionEnd", i) :
                 \E k \in Before("sessionStart", i) : j < k
        /\ \A i \in At("response") :
              \A j \in Before("sessionEnd", i) :
                 InputOf(i) < j => \E k \in Before("sessionStart", i) : j < k

\* the number of farewells (session:end events handled) after position i and
\* before the next greeting
EndsOfSessionAt(i) ==
    Cardinality({j \in At("farewell") :
                    i < j /\ \A k \in At("greeting") : ~(i < k /\ k < j)})

\* C37: start() on an active session emits the warning 'Session already
\* active', returns false and changes neither transcript, readline interface
\* nor anything written; stop() on an inactive session emits the warning 'No
\* active session to end', returns false and emits no session:end; each
\* session started has at most one session:end.
C37_RejectedStartAndStop ==
    /\ [][ /\ (isActive /\ EDTStart) =>
                 /\ returned' = Outcome("start", FALSE, <<"Session already active">>)
                 /\ UNCHANGED <<chatHistory, rl, isActive, asking, out, ends>>
           /\ (~isActive /\ EDTStop) =>
                 /\ returned' = Outcome("stop", FALSE, <<"No active session to end">>)
                 /\ UNCHANGED <<chatHistory, rl, isActive, out, ends>> ]_vars
    /\ [](impl = "edt" =>
             /\ Len(ends) = Count(out, "farewell")
             /\ Len(ends) <= Count(out, "greeting")
             /\ \A i \in At("greeting") : EndsOfSessionAt(i) <= 1)

\* C37 witness: stop() was called again on a session that had ended
C37_Witness ==
    /\ impl = "edt"
    /\ returned = Outcome("stop", FALSE, <<"No active session to end">>)
    /\ Len(ends) = 1
    /\ Count(out, "greeting") = 1

\* the outcome events of backend calls: a reply, or an error that is not the
\* report of an input failure
Outcomes ==
    {k \in 1..Len(out) :
        \/ out[k].ev = "reply"
        \/ /\ out[k].ev = "error"
           /\ out[k].text /= <<"No active session">>
           /\ k > 1 => out[k - 1].ev /= "inputerror"}

\* C38: in the event-driven session no prompt is issued between an
\* ai:thinking event and the outcome of its backend call, and every reply is
\* followed at once by one prompt.
C38_PromptFollowsOutcome ==
    impl = "edt" =>
        /\ \A i \in At("thinking") : \A j \in At("prompt") :
              i < j => \E k \in Outcomes : i < k /\ k < j
        /\ \A i \in At("reply") : i < Len(out) /\ out[i + 1].ev = "prompt"

\* C39: a non-empty transcript of the event-driven session begins with the
\* system message and holds no other system message.
C39_TranscriptBeginsWithSystem ==
    (impl = "edt" /\ chatHistory /= <<>>) =>
        /\ chatHistory[1].role = "system"
        /\ \A i \in 2..Len(chatHistory) : chatHistory[i].role /= "system"

\* C40: in the callback-based loop the number of 'error' listeners on the
\* readline interface does not depend on the number of turns: a step that
\* completes a turn (the backend call settles) leaves it unchanged.
C40_ListenersIndependentOfTurns ==
    [][ (impl = "dist" /\ pc = "WaitingOnBackend") =>
            errorListeners' = errorListeners ]_vars

====
